---- MODULE Spec2Model ----
(***************************************************************************)
(* A model of the version-sync crate: the version compatibility predicate  *)
(* (src/helpers.rs), the placeholder expansion and the three pattern       *)
(* checks (src/contains_substring.rs, src/contains_regex.rs).              *)
(*                                                                         *)
(* Strings are sequences of one-character strings.  A Result is a record   *)
(* [ok |-> TRUE] or [ok |-> FALSE, err |-> message]; a message built with  *)
(* format! is the record [fmt |-> format string, args |-> arguments].      *)
(* An Option is a sequence: None is << >> and Some(x) is <<x>>.            *)
(***************************************************************************)
EXTENDS Integers, Sequences, FiniteSets, TLC

VARIABLES
    pc,      \* where the program stands: "idle", or inside / after a call
    args,    \* the arguments of the call being made
    locals,  \* the local variables of the call being made
    stdout,  \* the lines println! wrote during the call
    ret,     \* the value the call returned, NoRet while it runs
    file     \* the file at the path of the call: its bytes, or unreadable

vars == <<pc, args, locals, stdout, ret, file>>

\* ------------------------------------------------------------------ bounds

\* Version components range over 0..MaxNum.
MaxNum == 1
\* Requirements of several comparators have at most MaxComparators.
MaxComparators == 2
\* Files have at most MaxLines lines.
MaxLines == 2
\* Files written with one line ending throughout have at most MaxEolLines lines.
MaxEolLines == 3

\* The longest file content, in characters, that read_file is applied to alone.
MaxBytes == 4
\* The largest number of pieces a language tag is made of.
MaxPieces == 3
\* The largest number of parts (paragraphs, fenced code blocks) of a
\* Markdown file.
MaxParts == 2

\* ----------------------------------------------------------- result values

None == << >>
Some(x) == <<x>>

Ok == [ok |-> TRUE]
Err(msg) == [ok |-> FALSE, err |-> msg]
Format(fmt, a) == [fmt |-> fmt, args |-> a]

NoRet == [ok |-> FALSE, err |-> "(running)"]
NoArgs == [fn |-> "none"]
NoLocals == [fn |-> "none"]

\* --------------------------------------------------------- semver::Version

Nums == 0..MaxNum

\* Pre-release tags: the empty one (a release) and two others.
PreReleases == { << >>, <<"a">>, <<"b">> }

Versions ==
    [major : Nums, minor : Nums, patch : Nums, pre : PreReleases]

\* The operators of semver::Op.
Ops == {"Exact", "Greater", "GreaterEq", "Less", "LessEq", "Tilde", "Caret", "Wildcard"}

\* A comparator as semver's parser builds it: a patch only after a minor, a
\* pre-release only after a patch, and no patch under a wildcard.
Comparators ==
    { c \in [op : Ops,
             major : Nums,
             minor : {None} \cup {Some(n) : n \in Nums},
             patch : {None} \cup {Some(n) : n \in Nums},
             pre : PreReleases] :
        /\ (c.minor = None => c.patch = None)
        /\ (c.patch = None => c.pre = << >>)
        /\ (c.op = "Wildcard" => c.patch = None) }

\* The comparators used in requirements of several comparators: a major only.
ShortComparators ==
    { c \in Comparators : c.minor = None /\ c.op \in {"Caret", "GreaterEq", "Less"} }

RECURSIVE SeqsUpTo(_, _)
SeqsUpTo(S, n) ==
    IF n = 0 THEN { << >> }
    ELSE LET shorter == SeqsUpTo(S, n - 1)
         IN  shorter \cup { Append(s, x) : s \in shorter, x \in S }

\* semver::VersionReq: an ordered list of comparators.
Requests ==
    { [comparators |-> <<c>>] : c \in Comparators }
    \cup { [comparators |-> cs] : cs \in SeqsUpTo(ShortComparators, MaxComparators) }

\* ------------------------------------------- helpers::version_matches_request

\* A variant that also checks the operator <.
CheckedOps_WithLess ==
    {"Tilde", "Caret", "Exact", "Greater", "GreaterEq", "Wildcard", "Less"}

\* A variant that takes > for an operator that cannot be checked.
CheckedOps_WithoutGreater == {"Tilde", "Caret", "Exact", "GreaterEq", "Wildcard"}

\* The operators the match arm of helpers.rs line 55 checks.
CheckedOps == {"Tilde", "Caret", "Exact", "Greater", "GreaterEq", "Wildcard"}

\* A variant without the patch comparison.
comparator_matches_NoPatch(version, comparator) ==
    IF comparator.op \in CheckedOps
    THEN IF comparator.major /= version.major
         THEN Err(Format("expected major version {}, found {}",
                         <<version.major, comparator.major>>))
         ELSE IF comparator.minor /= None /\ comparator.minor[1] /= version.minor
         THEN Err(Format("expected minor version {}, found {}",
                         <<version.minor, comparator.minor[1]>>))
         ELSE IF comparator.pre /= version.pre
         THEN Err(Format("expected pre-release \"{}\", found \"{}\"",
                         <<version.pre, comparator.pre>>))
         ELSE Ok
    ELSE Ok

\* A variant that compares the pre-release only under a patch.
comparator_matches_PreUnderPatch(version, comparator) ==
    IF comparator.op \in CheckedOps
    THEN IF comparator.major /= version.major
         THEN Err(Format("expected major version {}, found {}",
                         <<version.major, comparator.major>>))
         ELSE IF comparator.minor /= None /\ comparator.minor[1] /= version.minor
         THEN Err(Format("expected minor version {}, found {}",
                         <<version.minor, comparator.minor[1]>>))
         ELSE IF comparator.patch /= None /\ comparator.patch[1] /= version.patch
         THEN Err(Format("expected patch version {}, found {}",
                         <<version.patch, comparator.patch[1]>>))
         ELSE IF comparator.patch /= None /\ comparator.pre /= version.pre
         THEN Err(Format("expected pre-release \"{}\", found \"{}\"",
                         <<version.pre, comparator.pre>>))
         ELSE Ok
    ELSE Ok

\* A variant whose minor message swaps the two roles.
comparator_matches_SwappedRoles(version, comparator) ==
    IF comparator.op \in CheckedOps
    THEN IF comparator.major /= version.major
         THEN Err(Format("expected major version {}, found {}",
                         <<version.major, comparator.major>>))
         ELSE IF comparator.minor /= None /\ comparator.minor[1] /= version.minor
         THEN Err(Format("expected minor version {}, found {}",
                         <<comparator.minor[1], version.minor>>))
         ELSE IF comparator.patch /= None /\ comparator.patch[1] /= version.patch
         THEN Err(Format("expected patch version {}, found {}",
                         <<version.patch, comparator.patch[1]>>))
         ELSE IF comparator.pre /= version.pre
         THEN Err(Format("expected pre-release \"{}\", found \"{}\"",
                         <<version.pre, comparator.pre>>))
         ELSE Ok
    ELSE Ok

\* One iteration of the loop over the comparators: the error it returns, or Ok
\* when the loop goes on.
comparator_matches(version, comparator) ==
    IF comparator.op \in CheckedOps
    THEN IF comparator.major /= version.major
         THEN Err(Format("expected major version {}, found {}",
                         <<version.major, comparator.major>>))
         ELSE IF comparator.minor /= None /\ comparator.minor[1] /= version.minor
         THEN Err(Format("expected minor version {}, found {}",
                         <<version.minor, comparator.minor[1]>>))
         ELSE IF comparator.patch /= None /\ comparator.patch[1] /= version.patch
         THEN Err(Format("expected patch version {}, found {}",
                         <<version.patch, comparator.patch[1]>>))
         ELSE IF comparator.pre /= version.pre
         THEN Err(Format("expected pre-release \"{}\", found \"{}\"",
                         <<version.pre, comparator.pre>>))
         ELSE Ok
    ELSE Ok

\* A variant that only handles requirements of exactly one comparator.
comparators_match_SingleOnly(version, comparators, i) ==
    IF Len(comparators) /= 1 THEN Ok
    ELSE comparator_matches(version, comparators[1])

\* A variant that reports the last comparator that fails, not the first.
comparators_match_LastError(version, comparators, i) ==
    LET bad == { k \in i..Len(comparators) :
                    ~comparator_matches(version, comparators[k]).ok }
    IN  IF bad = {} THEN Ok
        ELSE comparator_matches(version,
                 comparators[CHOOSE k \in bad : \A j \in bad : j <= k])

RECURSIVE comparators_match(_, _, _)
comparators_match(version, comparators, i) ==
    IF i > Len(comparators) THEN Ok
    ELSE LET r == comparator_matches(version, comparators[i])
         IN  IF r.ok THEN comparators_match(version, comparators, i + 1) ELSE r

version_matches_request(version, request) ==
    comparators_match(version, request.comparators, 1)

\* ------------------------------------------------------------ str methods

\* s[i..] starts with p.
StartsWithAt(s, i, p) ==
    /\ i + Len(p) - 1 <= Len(s)
    /\ \A k \in 1..Len(p) : s[i + k - 1] = p[k]

\* str::replace: every non-overlapping occurrence of `from`, left to right.
RECURSIVE ReplaceFrom(_, _, _, _), ReplaceAt(_, _, _, _, _)
ReplaceFrom(s, i, from, to) ==
    LET hits == { j \in i..Len(s) : StartsWithAt(s, j, from) }
    IN  IF hits = {} THEN SubSeq(s, i, Len(s))
        ELSE ReplaceAt(s, i, CHOOSE j \in hits : \A h \in hits : j <= h, from, to)

\* What stands from i to the occurrence at j, `to`, and the rest replaced.
ReplaceAt(s, i, j, from, to) ==
    SubSeq(s, i, j - 1) \o to \o ReplaceFrom(s, j + Len(from), from, to)

replace(s, from, to) == ReplaceFrom(s, 1, from, to)

\* A variant that looks at the start of s only.
find_AtStart(s, p) == IF StartsWithAt(s, 1, p) THEN Some(1) ELSE None

\* str::find: the index (from 1) of the first occurrence of p in s, or None.
find(s, p) ==
    LET hits == { i \in 1..(Len(s) + 1) : StartsWithAt(s, i, p) }
    IN  IF hits = {} THEN None
        ELSE Some(CHOOSE i \in hits : \A j \in hits : i <= j)

\* str::lines().count(): every line feed ends a line, and what follows the
\* last line feed is one more line unless it is empty.
lines_count(s) ==
    Cardinality({ i \in 1..Len(s) : s[i] = "\n" })
        + (IF Len(s) > 0 /\ s[Len(s)] /= "\n" THEN 1 ELSE 0)

\* The placeholders.
NamePlaceholder == <<"{", "n", "a", "m", "e", "}">>
VersionPlaceholder == <<"{", "v", "e", "r", "s", "i", "o", "n", "}">>

\* ------------------------------------------------------------ regex syntax

AsciiDigits == {"0", "1", "2", "3", "4", "5", "6", "7", "8", "9"}
\* A decimal digit outside ASCII (ARABIC-INDIC DIGIT THREE), one character.
ArabicThree == "U+0663"
\* \d of the regex crate is Unicode-aware: it matches every decimal digit.
UnicodeDigits == AsciiDigits \cup {ArabicThree}
NonZeroDigits == AsciiDigits \ {"0"}
\* The ASCII letters that occur in the texts of the model.
Letters == {"a", "b", "f", "h", "o", "x"}
\* regex::escape puts a backslash before each of these.
MetaChars == {"\\", ".", "+", "*", "?", "(", ")", "|", "[", "]", "{", "}",
              "^", "$", "#", "&", "-", "~"}

\* Regular expressions, as trees.
Class(S) == [t |-> "class", s |-> S]
AnyChar == [t |-> "any"]
LineStart == [t |-> "bol"]
LineEnd == [t |-> "eol"]
Cat(xs) == [t |-> "cat", xs |-> xs]
Alt(xs) == [t |-> "alt", xs |-> xs]
Opt(x) == [t |-> "opt", x |-> x]
Star(x) == [t |-> "star", x |-> x]
Named(name, x) == [t |-> "group", name |-> name, x |-> x]

\* 0|[1-9]\d*
NumericRe == Alt(<<Class({"0"}), Cat(<<Class(NonZeroDigits), Star(Class(UnicodeDigits))>>)>>)

\* 0|[1-9]\d*|\d*[a-zA-Z-][0-9a-zA-Z-]*
PreIdentRe ==
    Alt(<<Class({"0"}),
          Cat(<<Class(NonZeroDigits), Star(Class(UnicodeDigits))>>),
          Cat(<<Star(Class(UnicodeDigits)),
                Class(Letters \cup {"-"}),
                Star(Class(AsciiDigits \cup Letters \cup {"-"}))>>)>>)

\* [0-9a-zA-Z-]+
BuildIdentRe ==
    Cat(<<Class(AsciiDigits \cup Letters \cup {"-"}),
          Star(Class(AsciiDigits \cup Letters \cup {"-"}))>>)

\* SEMVER_RE, a full or partial SemVer version number, with its named groups.
SEMVER_RE ==
    Cat(<<
        Named("major", NumericRe),
        Opt(Cat(<<
            Class({"."}), Named("minor", NumericRe),
            Opt(Cat(<<
                Class({"."}), Named("patch", NumericRe),
                Opt(Cat(<<Class({"-"}),
                          Named("prerelease",
                                Cat(<<PreIdentRe,
                                      Star(Cat(<<Class({"."}), PreIdentRe>>))>>))>>)),
                Opt(Cat(<<Class({"+"}),
                          Named("buildmetadata",
                                Cat(<<BuildIdentRe,
                                      Star(Cat(<<Class({"."}), BuildIdentRe>>))>>))>>))
            >>))
        >>))
    >>)

\* In a pattern (a sequence of characters) this one element stands for the
\* text of SEMVER_RE, which replace() puts where {version} stood.
SemverText == "SEMVER_RE"

\* A variant that escapes nothing.
escape_Nothing(s) == s

\* regex::escape.
RECURSIVE escape(_)
escape(s) ==
    IF s = << >> THEN << >>
    ELSE (IF Head(s) \in MetaChars THEN <<"\\", Head(s)>> ELSE <<Head(s)>>)
         \o escape(Tail(s))

\* The names of the capture groups of a tree, in order.
RECURSIVE GroupNames(_), GroupNamesOfSeq(_)
GroupNames(n) ==
    CASE n.t = "group" -> <<n.name>> \o GroupNames(n.x)
      [] n.t \in {"opt", "star"} -> GroupNames(n.x)
      [] n.t \in {"cat", "alt"} -> GroupNamesOfSeq(n.xs)
      [] OTHER -> << >>
GroupNamesOfSeq(xs) ==
    IF xs = << >> THEN << >> ELSE GroupNames(Head(xs)) \o GroupNamesOfSeq(Tail(xs))

\* The regex parser on the patterns of the model: a backslash makes the next
\* character literal, `.` `^` `$` have their meaning, `*` repeats the item
\* before it, the element SemverText is SEMVER_RE, `[` opens a class (never
\* closed in the model's patterns: an error), and any other character is
\* itself.  The result is the list of the items, or the error.
RECURSIVE ParseItems(_, _, _)
ParseItems(p, i, acc) ==
    IF i > Len(p) THEN [ok |-> TRUE, items |-> acc]
    ELSE LET c == p[i]
         IN  CASE c = "\\" ->
                    IF i = Len(p)
                    THEN [ok |-> FALSE, err |-> "incomplete escape sequence"]
                    ELSE ParseItems(p, i + 2, Append(acc, Class({p[i + 1]})))
               [] c = "[" -> [ok |-> FALSE, err |-> "unclosed character class"]
               [] c = "*" ->
                    IF acc = << >>
                    THEN [ok |-> FALSE, err |-> "repetition operator missing expression"]
                    ELSE ParseItems(p, i + 1,
                            Append(SubSeq(acc, 1, Len(acc) - 1), Star(acc[Len(acc)])))
               [] c = "." -> ParseItems(p, i + 1, Append(acc, AnyChar))
               [] c = "^" -> ParseItems(p, i + 1, Append(acc, LineStart))
               [] c = "$" -> ParseItems(p, i + 1, Append(acc, LineEnd))
               [] c = SemverText -> ParseItems(p, i + 1, Append(acc, SEMVER_RE))
               [] OTHER -> ParseItems(p, i + 1, Append(acc, Class({c})))

HasDuplicates(names) ==
    \E i, j \in 1..Len(names) : i < j /\ names[i] = names[j]

\* RegexBuilder::new(pattern).multi_line(true).build(): the tree, or the
\* error; two groups of one name are an error.
compile(pattern) ==
    LET parsed == ParseItems(pattern, 1, << >>)
    IN  IF ~parsed.ok THEN Err(parsed.err)
        ELSE IF HasDuplicates(GroupNamesOfSeq(parsed.items))
        THEN Err("duplicate capture group name")
        ELSE [ok |-> TRUE, re |-> Cat(parsed.items)]

\* ---------------------------------------------------------- regex matching

\* The positions (from 1) at which a match of tree n that starts at pos can
\* end (the position after its last character), in the order a backtracking
\* matcher tries them: the first alternative first, a repetition as long as
\* it can be first.
RECURSIVE Ends(_, _, _), EndsFromAll(_, _, _, _), CatEnds(_, _, _, _),
          AltEnds(_, _, _, _), StarEnds(_, _, _)
Ends(n, text, pos) ==
    CASE n.t = "class" ->
            IF pos <= Len(text) /\ text[pos] \in n.s THEN <<pos + 1>> ELSE << >>
      [] n.t = "any" ->
            IF pos <= Len(text) /\ text[pos] /= "\n" THEN <<pos + 1>> ELSE << >>
      [] n.t = "bol" ->
            IF pos = 1 \/ text[pos - 1] = "\n" THEN <<pos>> ELSE << >>
      [] n.t = "eol" ->
            IF pos = Len(text) + 1 \/ text[pos] = "\n" THEN <<pos>> ELSE << >>
      [] n.t = "cat" -> CatEnds(n.xs, 1, text, <<pos>>)
      [] n.t = "alt" -> AltEnds(n.xs, 1, text, pos)
      [] n.t = "opt" -> Ends(n.x, text, pos) \o <<pos>>
      [] n.t = "star" -> StarEnds(n.x, text, pos)
      [] n.t = "group" -> Ends(n.x, text, pos)

\* The ends of n from each of the starts, in the order of the starts.
EndsFromAll(n, text, starts, i) ==
    IF i > Len(starts) THEN << >>
    ELSE Ends(n, text, starts[i]) \o EndsFromAll(n, text, starts, i + 1)

CatEnds(xs, k, text, starts) ==
    IF k > Len(xs) \/ starts = << >> THEN starts
    ELSE CatEnds(xs, k + 1, text, EndsFromAll(xs[k], text, starts, 1))

AltEnds(xs, k, text, pos) ==
    IF k > Len(xs) THEN << >>
    ELSE Ends(xs[k], text, pos) \o AltEnds(xs, k + 1, text, pos)

StarEnds(x, text, pos) ==
    LET once == SelectSeq(Ends(x, text, pos), LAMBDA e : e > pos)
    IN  EndsFromAll(Star(x), text, once, 1) \o <<pos>>

\* The match that starts at pos, if one does: [start, end), end exclusive.
MatchAt(re, text, pos) ==
    LET ends == Ends(re, text, pos)
    IN  IF ends = << >> THEN None ELSE Some([start |-> pos, end |-> ends[1]])

\* Regex::find from position `from`: the leftmost match.
RECURSIVE FindFrom(_, _, _)
FindFrom(re, text, from) ==
    IF from > Len(text) + 1 THEN None
    ELSE LET m == MatchAt(re, text, from)
         IN  IF m /= None THEN m ELSE FindFrom(re, text, from + 1)

\* Regex::find_iter: the successive non-overlapping matches.  After an empty
\* match the search moves on by one character, and an empty match right at
\* the end of the match before it is skipped.
RECURSIVE FindIterFrom(_, _, _, _)
FindIterFrom(re, text, from, last_match) ==
    LET m == FindFrom(re, text, from)
    IN  IF m = None THEN << >>
        ELSE LET s == m[1].start
                 e == m[1].end
             IN  IF e = s
                 THEN IF last_match = Some(e)
                      THEN FindIterFrom(re, text, e + 1, last_match)
                      ELSE <<m[1]>> \o FindIterFrom(re, text, e + 1, Some(e))
                 ELSE <<m[1]>> \o FindIterFrom(re, text, e, Some(e))

find_iter(re, text) == FindIterFrom(re, text, 1, None)

\* Match::as_str.
as_str(text, m) == SubSeq(text, m.start, m.end - 1)

\* ------------------------------------------------------------ semver parsing

DigitSeq == <<"0", "1", "2", "3", "4", "5", "6", "7", "8", "9">>
DigitVal(c) == (CHOOSE k \in 1..10 : DigitSeq[k] = c) - 1

\* The position after the run of characters of S that starts at i.
RECURSIVE RunEnd(_, _, _)
RunEnd(s, i, S) ==
    IF i <= Len(s) /\ s[i] \in S THEN RunEnd(s, i + 1, S) ELSE i

RECURSIVE DecimalValue(_, _, _, _)
DecimalValue(s, i, j, acc) ==
    IF i >= j THEN acc ELSE DecimalValue(s, i + 1, j, 10 * acc + DigitVal(s[i]))

\* A numeric identifier at s[i..]: ASCII digits, no leading zero.
numeric_identifier(s, i) ==
    LET j == RunEnd(s, i, AsciiDigits)
    IN  IF j = i THEN [ok |-> FALSE]
        ELSE IF s[i] = "0" /\ j > i + 1 THEN [ok |-> FALSE]
        ELSE [ok |-> TRUE, val |-> DecimalValue(s, i, j, 0), next |-> j]

IdentChars == AsciiDigits \cup Letters \cup {"-", "."}

\* The optional -pre and +build that follow a patch at s[i..].
pre_and_build(s, i) ==
    LET hasPre == i <= Len(s) /\ s[i] = "-"
        j == IF hasPre THEN RunEnd(s, i + 1, IdentChars) ELSE i
        hasBuild == j <= Len(s) /\ s[j] = "+"
        k == IF hasBuild THEN RunEnd(s, j + 1, IdentChars) ELSE j
    IN  IF (hasPre /\ j = i + 1) \/ (hasBuild /\ k = j + 1) THEN [ok |-> FALSE]
        ELSE [ok |-> TRUE,
              pre |-> IF hasPre THEN SubSeq(s, i + 1, j - 1) ELSE << >>,
              next |-> k]

\* The characters that stand for "any" in a requirement.
WildcardChars == {"*", "x", "X"}

\* text.trim_start_matches(' ') from position i.
trim_start(s, i) == RunEnd(s, i, {" "})

\* The operator a comparator starts with at s[i..]; a bare version is a caret
\* one (default_op).
comparator_op(s, i) ==
    IF StartsWithAt(s, i, <<">", "=">>)
    THEN [op |-> "GreaterEq", next |-> i + 2, default_op |-> FALSE]
    ELSE IF StartsWithAt(s, i, <<"<", "=">>)
    THEN [op |-> "LessEq", next |-> i + 2, default_op |-> FALSE]
    ELSE IF StartsWithAt(s, i, <<"=">>)
    THEN [op |-> "Exact", next |-> i + 1, default_op |-> FALSE]
    ELSE IF StartsWithAt(s, i, <<">">>)
    THEN [op |-> "Greater", next |-> i + 1, default_op |-> FALSE]
    ELSE IF StartsWithAt(s, i, <<"<">>)
    THEN [op |-> "Less", next |-> i + 1, default_op |-> FALSE]
    ELSE IF StartsWithAt(s, i, <<"~">>)
    THEN [op |-> "Tilde", next |-> i + 1, default_op |-> FALSE]
    ELSE IF StartsWithAt(s, i, <<"^">>)
    THEN [op |-> "Caret", next |-> i + 1, default_op |-> FALSE]
    ELSE [op |-> "Caret", next |-> i, default_op |-> TRUE]

ParseError == [ok |-> FALSE, err |-> "semver::Error"]

\* The optional ".minor" or ".patch" at s[i..]: a number, or a wildcard
\* character (no number may follow a wildcard: after_wildcard).
dot_component(s, i, after_wildcard) ==
    IF ~(i <= Len(s) /\ s[i] = ".")
    THEN [ok |-> TRUE, val |-> None, wildcard |-> FALSE, next |-> i]
    ELSE IF i + 1 <= Len(s) /\ s[i + 1] \in WildcardChars
    THEN [ok |-> TRUE, val |-> None, wildcard |-> TRUE, next |-> i + 2]
    ELSE IF after_wildcard THEN [ok |-> FALSE]
    ELSE LET n == numeric_identifier(s, i + 1)
         IN  IF ~n.ok THEN [ok |-> FALSE]
             ELSE [ok |-> TRUE, val |-> Some(n.val), wildcard |-> FALSE, next |-> n.next]

\* The comparator made of the parts read: the operator o, the major, minor
\* and patch, and `rest`, the -pre and +build; `next` is where the text
\* after it starts.
comparator_of(s, o, major, minor, patch, rest) ==
    IF ~rest.ok THEN [ok |-> FALSE]
    ELSE [ok |-> TRUE,
          comparator |-> [op |-> IF o.default_op /\ (minor.wildcard \/ patch.wildcard)
                                 THEN "Wildcard" ELSE o.op,
                          major |-> major.val,
                          minor |-> minor.val,
                          patch |-> patch.val,
                          pre |-> rest.pre],
          next |-> trim_start(s, rest.next)]

\* What follows the major of a comparator: optionally .minor, .patch, -pre,
\* +build (the last two only after a patch).
comparator_patch(s, o, major, minor, patch) ==
    IF ~patch.ok THEN [ok |-> FALSE]
    ELSE comparator_of(s, o, major, minor, patch,
                       IF patch.val /= None THEN pre_and_build(s, patch.next)
                       ELSE [ok |-> TRUE, pre |-> << >>, next |-> patch.next])

comparator_minor(s, o, major, minor) ==
    IF ~minor.ok THEN [ok |-> FALSE]
    ELSE comparator_patch(s, o, major, minor,
                          dot_component(s, minor.next, minor.wildcard))

comparator_major(s, o, major) ==
    IF ~major.ok THEN [ok |-> FALSE]
    ELSE comparator_minor(s, o, major, dot_component(s, major.next, FALSE))

\* What follows the operator o of a comparator.
comparator_version(s, o) ==
    comparator_major(s, o, numeric_identifier(s, trim_start(s, o.next)))

\* One comparator at s[i..]: operator, major, and then optionally .minor,
\* .patch, -pre, +build.
comparator(s, i) == comparator_version(s, comparator_op(s, i))

\* The list of comparators at s[i..], separated by commas, after `out`;
\* c is the comparator read at s[i..].
RECURSIVE version_req(_, _, _), version_req_after(_, _, _)
version_req_after(s, c, out) ==
    IF ~c.ok THEN ParseError
    ELSE IF c.next > Len(s)
    THEN [ok |-> TRUE, req |-> [comparators |-> Append(out, c.comparator)]]
    ELSE IF s[c.next] /= "," THEN ParseError
    ELSE IF Len(out) + 1 = 32 THEN ParseError
    ELSE version_req(s, trim_start(s, c.next + 1), Append(out, c.comparator))

version_req(s, i, out) == version_req_after(s, comparator(s, i), out)

\* semver::VersionReq::parse: a wildcard character alone is the requirement
\* with no comparator; anything else is a list of comparators.
VersionReq_parse(s) ==
    LET i == trim_start(s, 1)
    IN  IF i <= Len(s) /\ s[i] \in WildcardChars
        THEN IF trim_start(s, i + 1) > Len(s)
             THEN [ok |-> TRUE, req |-> [comparators |-> << >>]]
             ELSE ParseError
        ELSE version_req(s, i, << >>)

\* semver::Version::parse: major.minor.patch, then optionally -pre and +build.
Version_parse(s) ==
    LET major == numeric_identifier(s, 1)
    IN  IF ~major.ok \/ major.next > Len(s) \/ s[major.next] /= "." THEN ParseError
        ELSE LET minor == numeric_identifier(s, major.next + 1)
             IN  IF ~minor.ok \/ minor.next > Len(s) \/ s[minor.next] /= "."
                 THEN ParseError
                 ELSE LET patch == numeric_identifier(s, minor.next + 1)
                          rest == pre_and_build(s, patch.next)
                      IN  IF ~patch.ok THEN ParseError
                          ELSE IF ~rest.ok \/ rest.next <= Len(s) THEN ParseError
                          ELSE [ok |-> TRUE,
                                version |-> [major |-> major.val, minor |-> minor.val,
                                             patch |-> patch.val, pre |-> rest.pre]]

\* ------------------------------------------------------------------- inputs

Foo == <<"f", "o", "o">>
H2 == <<"h", "2">>
PkgNames == {Foo, H2}

V100 == <<"1", ".", "0", ".", "0">>
V200 == <<"2", ".", "0", ".", "0">>
PkgVersions == {V100, V200, <<"x">>}

Templates ==
    { NamePlaceholder \o <<"/">> \o VersionPlaceholder \o <<"/">> \o NamePlaceholder,
      VersionPlaceholder,
      VersionPlaceholder \o <<" ">> \o VersionPlaceholder,
      NamePlaceholder \o <<"/">>,
      <<"x", " ">>,
      <<"f", "[">> }

\* The lines files are made of.
FileLines ==
    { Foo \o <<"/">> \o V100 \o <<"/">> \o Foo,
      <<"x", " ">> \o Foo \o <<"/">> \o V200 \o <<"/">> \o Foo,
      H2 \o <<"/">> \o V100 \o <<"/">> \o H2,
      <<"x", " ">> \o Foo \o <<"/", "1", ArabicThree, "/">> \o Foo }

RECURSIVE JoinLines(_)
JoinLines(ls) ==
    IF ls = << >> THEN << >>
    ELSE IF Len(ls) = 1 THEN ls[1]
    ELSE ls[1] \o <<"\n">> \o JoinLines(Tail(ls))

Unreadable == [readable |-> FALSE]
NoFile == [readable |-> FALSE, absent |-> TRUE]

Files ==
    {Unreadable}
    \cup { [readable |-> TRUE, bytes |-> JoinLines(ls)] : ls \in SeqsUpTo(FileLines, MaxLines) }

Path == "README.md"

\* ------------------------------------------------- inputs of tests::escaping

\* A package name with a regex metacharacter in it, and a plain one.
FooStarBar == <<"f", "o", "o", "*", "b", "a", "r">>
EscapingNames == {FooStarBar, Foo}

V123 == <<"1", ".", "2", ".", "3">>
V12 == <<"1", ".", "2">>
EscapingVersions == {V123, V12}

EscapingTemplates ==
    { NamePlaceholder \o <<"-">> \o VersionPlaceholder,
      NamePlaceholder,
      VersionPlaceholder }

\* The text the expansion stands for, and texts that a name or a version
\* taken for a regular expression would match too.
EscapingLines ==
    { FooStarBar \o <<"-">> \o V123,
      <<"f", "o", "o", "X", "b", "a", "r", "-">> \o V123,
      FooStarBar \o <<"-", "1", "x", "2", "x", "3">>,
      <<"f", "o", "b", "a", "r", "-">> \o V123 }

EscapingFiles ==
    { [readable |-> TRUE, bytes |-> JoinLines(ls)] :
        ls \in SeqsUpTo(EscapingLines, MaxLines) }


\* ------------------------------------------- inputs of tests::line_boundaries

Lf == <<"\n">>
CrLf == <<"\r", "\n">>

\* The lines joined by the line ending, which also ends the last line when
\* `terminated`.
RECURSIVE Render(_, _, _)
Render(ls, eol, terminated) ==
    IF ls = << >> THEN << >>
    ELSE IF Len(ls) = 1 THEN ls[1] \o (IF terminated THEN eol ELSE << >>)
    ELSE ls[1] \o eol \o Render(Tail(ls), eol, terminated)

EolLines == { <<"a">>, <<"b">> }

EolFiles ==
    { [readable |-> TRUE, bytes |-> Render(ls, eol, terminated)] :
        ls \in SeqsUpTo(EolLines, MaxEolLines), eol \in {Lf, CrLf},
        terminated \in BOOLEAN }

\* A pattern anchored to one line, plain ones, and one that spans two lines.
EolTemplates ==
    { <<"^", "b", "$">>, <<"b">>, <<"a", "$">>, <<"a", "\n", "b">> }

\* ---------------------------------------- inputs of the placeholder expansion

\* Names and versions that are plain, and ones that hold the text of a
\* placeholder.
ExpansionNames ==
    { Foo, VersionPlaceholder, <<"a">> \o VersionPlaceholder, NamePlaceholder }

ExpansionVersions == { V100, NamePlaceholder, VersionPlaceholder }

ExpansionTemplates ==
    { NamePlaceholder,
      VersionPlaceholder,
      NamePlaceholder \o <<"/">> \o VersionPlaceholder,
      VersionPlaceholder \o <<"/">> \o NamePlaceholder,
      <<"x">> }

ExpansionLines ==
    { Foo \o <<"/">> \o V100,
      VersionPlaceholder \o <<"/">> \o V100,
      V100 \o <<"/">> \o V100,
      <<"a">> \o VersionPlaceholder,
      <<"a">> \o V100,
      NamePlaceholder }

ExpansionFiles ==
    { [readable |-> TRUE, bytes |-> JoinLines(ls)] :
        ls \in SeqsUpTo(ExpansionLines, MaxLines) }

\* ------------------------------------------------------- inputs of read_file

\* File contents of every arrangement of carriage returns, line feeds and a
\* plain character, and a file that cannot be read.
ReadBytes == { "a", "\r", "\n" }

ReadFiles ==
    {Unreadable}
    \cup { [readable |-> TRUE, bytes |-> bytes] : bytes \in SeqsUpTo(ReadBytes, MaxBytes) }

\* ------------------------------------------------------------ url::Url::parse

Lowercase == <<"a", "b", "c", "d", "e", "f", "g", "h", "i", "j", "k", "l", "m",
               "n", "o", "p", "q", "r", "s", "t", "u", "v", "w", "x", "y", "z">>
Uppercase == <<"A", "B", "C", "D", "E", "F", "G", "H", "I", "J", "K", "L", "M",
               "N", "O", "P", "Q", "R", "S", "T", "U", "V", "W", "X", "Y", "Z">>
AsciiLetters == { Lowercase[k] : k \in 1..26 } \cup { Uppercase[k] : k \in 1..26 }

to_ascii_lowercase(c) ==
    IF \E k \in 1..26 : Uppercase[k] = c
    THEN Lowercase[CHOOSE k \in 1..26 : Uppercase[k] = c]
    ELSE c

\* The pieces of s between the separators.
RECURSIVE split(_, _)
split(s, sep) ==
    LET hits == { i \in 1..Len(s) : s[i] = sep }
    IN  IF hits = {} THEN <<s>>
        ELSE LET i == CHOOSE h \in hits : \A g \in hits : h <= g
             IN  <<SubSeq(s, 1, i - 1)>> \o split(SubSeq(s, i + 1, Len(s)), sep)

\* The position of the first character of S in s at or after i, or Len(s) + 1.
RECURSIVE FirstOf(_, _, _)
FirstOf(s, i, S) ==
    IF i > Len(s) \/ s[i] \in S THEN i ELSE FirstOf(s, i + 1, S)

\* The schemes with a host and a path of their own ("special" ones).
SpecialSchemes == {<<"h", "t", "t", "p">>, <<"h", "t", "t", "p", "s">>, <<"f", "i", "l", "e">>}

\* The characters of a path that the parser writes as %XX.
percent_encode(c) ==
    CASE c = " " -> <<"%", "2", "0">>
      [] c = "<" -> <<"%", "3", "C">>
      [] c = ">" -> <<"%", "3", "E">>
      [] OTHER -> <<c>>

RECURSIVE percent_encode_all(_)
percent_encode_all(seg) ==
    IF seg = << >> THEN << >>
    ELSE percent_encode(Head(seg)) \o percent_encode_all(Tail(seg))

\* The segments of a path as the parser keeps them: "." is dropped, ".."
\* drops the segment before it, and each of them leaves an empty last
\* segment when it ends the path.
RECURSIVE parse_path(_, _, _)
parse_path(raw, i, segments) ==
    IF i > Len(raw) THEN segments
    ELSE LET last == i = Len(raw)
             seg == raw[i]
         IN  IF seg = <<".", ".">>
             THEN LET popped == IF segments = << >> THEN << >>
                                ELSE SubSeq(segments, 1, Len(segments) - 1)
                  IN  parse_path(raw, i + 1,
                                 IF last THEN Append(popped, << >>) ELSE popped)
             ELSE IF seg = <<".">>
             THEN parse_path(raw, i + 1,
                             IF last THEN Append(segments, << >>) ELSE segments)
             ELSE parse_path(raw, i + 1, Append(segments, percent_encode_all(seg)))

\* The host of an authority: a name that ends in a number is an IPv4
\* address, any other is a domain, in lower case.
parse_host(h) ==
    IF h[Len(h)] \in AsciiDigits
    THEN [kind |-> "ipv4", name |-> h]
    ELSE [kind |-> "domain", name |-> [k \in 1..Len(h) |-> to_ascii_lowercase(h[k])]]

UrlError(msg) == [ok |-> FALSE, err |-> msg]

\* Url::parse on the URLs of the model: scheme ":" and then, for http, https
\* and file, "//" host and a path up to "?" or "#" (any number of slashes
\* before the host of http and https, two before the host of file, which may
\* be empty); for any other scheme a path that is not made of segments (as
\* in mailto:).  No user, password or port.
Url_parse(value) ==
    LET colon == FirstOf(value, 1, {":"})
        scheme == [k \in 1..(colon - 1) |-> to_ascii_lowercase(value[k])]
    IN  IF \/ colon > Len(value)
           \/ colon = 1
           \/ value[1] \notin AsciiLetters
           \/ \E k \in 1..(colon - 1) :
                value[k] \notin AsciiLetters \cup AsciiDigits \cup {"+", "-", "."}
        THEN UrlError("relative URL without a base")
        ELSE IF scheme \notin SpecialSchemes
        THEN [ok |-> TRUE,
              url |-> [scheme |-> scheme, host |-> None, path_segments |-> None]]
        ELSE LET start == IF scheme = <<"f", "i", "l", "e">>
                          THEN IF StartsWithAt(value, colon + 1, <<"/", "/">>)
                               THEN colon + 3 ELSE colon + 1
                          ELSE RunEnd(value, colon + 1, {"/", "\\"})
                 stop == FirstOf(value, start, {"/", "\\", "?", "#"})
                 host == SubSeq(value, start, stop - 1)
                 path_end == FirstOf(value, stop, {"?", "#"})
                 path == SubSeq(value, stop + 1, path_end - 1)
             IN  IF host = << >> /\ scheme /= <<"f", "i", "l", "e">>
                 THEN UrlError("empty host")
                 ELSE [ok |-> TRUE,
                       url |-> [scheme |-> scheme,
                                host |-> IF host = << >> THEN None
                                         ELSE Some(parse_host(host)),
                                path_segments |->
                                    Some(LET segs == parse_path(split(path, "/"), 1, << >>)
                                         IN  IF segs = << >> THEN << << >> >> ELSE segs)]]

\* Url::domain.
domain(url) ==
    IF url.host /= None /\ url.host[1].kind = "domain"
    THEN Some(url.host[1].name) ELSE None

DocsRs == <<"d", "o", "c", "s", ".", "r", "s">>

\* ------------------------------------------------- html_root_url::url_matches

\* A variant that takes no domain for another one.
is_other_domain_Never(url) == FALSE

\* A variant that takes a URL without a domain for one of another domain.
is_other_domain_NoDomainToo(url) == domain(url) /= Some(DocsRs)

\* url.domain().is_some() && url.domain() != Some("docs.rs")
is_other_domain(url) == domain(url) /= None /\ domain(url) /= Some(DocsRs)

\* A variant that hands out empty segments.
next_non_empty_KeepsEmpty(path_segments, k) ==
    IF k > Len(path_segments) THEN None ELSE Some(path_segments[k])

\* path_segments.next().and_then(|path| if path.is_empty() { None } else
\* { Some(path) }) on the k-th segment.
next_non_empty(path_segments, k) ==
    IF k > Len(path_segments) THEN None
    ELSE IF path_segments[k] = << >> THEN None
    ELSE Some(path_segments[k])

\* A variant that parses the version before it compares the names.
url_matches_VersionFirst(value, pkg_name, version) ==
    LET parsed == Url_parse(value)
    IN  IF ~parsed.ok THEN Err(Format("parse error: {}", <<parsed.err>>))
        ELSE LET url == parsed.url
             IN  IF is_other_domain(url) THEN Ok
                 ELSE IF url.scheme /= <<"h", "t", "t", "p", "s">>
                 THEN Err(Format("expected \"https\", found {:?}", <<url.scheme>>))
                 ELSE IF url.path_segments = None
                 THEN Err(Format("no path in URL", << >>))
                 ELSE LET name == next_non_empty(url.path_segments[1], 1)
                          request == next_non_empty(url.path_segments[1], 2)
                      IN  IF name = None
                          THEN Err(Format("missing package name", << >>))
                          ELSE IF request = None
                          THEN Err(Format("missing version number", << >>))
                          ELSE LET req == VersionReq_parse(request[1])
                               IN  IF ~req.ok
                                   THEN Err(Format("could not parse version in URL: {}",
                                                   <<req.err>>))
                                   ELSE IF name[1] /= pkg_name
                                   THEN Err(Format("expected package \"{pkg_name}\", found \"{name}\"",
                                                   <<pkg_name, name[1]>>))
                                   ELSE version_matches_request(version, req.req)

url_matches(value, pkg_name, version) ==
    LET parsed == Url_parse(value)
    IN  IF ~parsed.ok THEN Err(Format("parse error: {}", <<parsed.err>>))
        ELSE LET url == parsed.url
             IN  IF is_other_domain(url) THEN Ok
                 ELSE IF url.scheme /= <<"h", "t", "t", "p", "s">>
                 THEN Err(Format("expected \"https\", found {:?}", <<url.scheme>>))
                 ELSE IF url.path_segments = None
                 THEN Err(Format("no path in URL", << >>))
                 ELSE LET name == next_non_empty(url.path_segments[1], 1)
                          request == next_non_empty(url.path_segments[1], 2)
                      IN  IF name = None
                          THEN Err(Format("missing package name", << >>))
                          ELSE IF request = None
                          THEN Err(Format("missing version number", << >>))
                          ELSE IF name[1] /= pkg_name
                          THEN Err(Format("expected package \"{pkg_name}\", found \"{name}\"",
                                          <<pkg_name, name[1]>>))
                          ELSE LET req == VersionReq_parse(request[1])
                               IN  IF ~req.ok
                                   THEN Err(Format("could not parse version in URL: {}",
                                                   <<req.err>>))
                                   ELSE version_matches_request(version, req.req)

\* ------------------------------------------------ inputs of test_url_matches

UrlHosts == { DocsRs, <<"D", "O", "C", "S", ".", "R", "S">>, <<"x", ".", "i", "o">>, <<"1", ".", "1">> }

UrlPaths ==
    { << >>,
      <<"/">>,
      <<"/", "f", "o", "o">>,
      <<"/", "f", "o", "o", "/">>,
      <<"/", "/", "1", ".", "0", ".", "0">>,
      <<"/", "f", "o", "o", "/", "1", ".", "0", ".", "0">>,
      <<"/", "f", "o", "o", "/", "1", ".", "0", ".", "0", "/">>,
      <<"/", "f", "o", "o", "/", "1">>,
      <<"/", "f", "o", "o", "/", "1", ".", "0">>,
      <<"/", "F", "o", "o", "/", "1", ".", "0", ".", "0">>,
      <<"/", "h", "2", "/", "1", ".", "0", ".", "0">>,
      <<"/", "f", "o", "o", "/", "*">>,
      <<"/", "f", "o", "o", "/", "1", ".", "*">>,
      <<"/", "f", "o", "o", "/", "=", "1", ".", "0", ".", "0">>,
      <<"/", "f", "o", "o", "/", "<", "1", ".", "0", ".", "0">>,
      <<"/", "f", "o", "o", "/", "x", "/">>,
      <<"/", "f", "o", "o", "/", "1", ".", "0", ".", "0", "-", "a">>,
      <<"/", "f", "o", "o", "/", ".", "/", "1", ".", "0", ".", "0">>,
      <<"/", "F", "o", "o", "/", "<", "1", ".", "0", ".", "0">> }

\* https and http URLs with a host, a mailto: one, a file: one without a
\* host, and a text that has no scheme.
UrlValues ==
    { scheme \o <<":", "/", "/">> \o host \o path :
        scheme \in {<<"h", "t", "t", "p", "s">>, <<"h", "t", "t", "p">>}, host \in UrlHosts, path \in UrlPaths }
    \cup { <<"m", "a", "i", "l", "t", "o", ":", "f", "o", "o">>,
           <<"f", "i", "l", "e", ":", "/", "/", "/", "f", "o", "o", "/", "1", ".", "0", ".", "0">>,
           <<"d", "o", "c", "s", ".", "r", "s", "/", "f", "o", "o", "/", "1", ".", "0", ".", "0">> }

\* ------------------------------------------------------------ toml::Value

\* s without the spaces and tabs at its two ends.
RECURSIVE trim(_)
trim(s) ==
    IF s = << >> THEN s
    ELSE IF Head(s) \in {" ", "\t"} THEN trim(Tail(s))
    ELSE IF s[Len(s)] \in {" ", "\t"} THEN trim(SubSeq(s, 1, Len(s) - 1))
    ELSE s

TomlString(str) == [t |-> "string", s |-> str]
TomlInteger == [t |-> "integer"]
TomlBoolean == [t |-> "boolean"]
TomlTable(entries) == [t |-> "table", entries |-> entries]
TomlError == [ok |-> FALSE, err |-> "toml::de::Error"]

\* Value::get with a key: the entry of a table, None for any other value.
Value_get(value, key) ==
    IF value.t /= "table" THEN None
    ELSE LET hits == { i \in 1..Len(value.entries) : value.entries[i].key = key }
         IN  IF hits = {} THEN None
             ELSE Some(value.entries[CHOOSE i \in hits : TRUE].value)

\* Value::as_str: the text of a string, None for any other value.
Value_as_str(value) ==
    IF value.t = "string" THEN Some(value.s) ELSE None

BareKeyChars == AsciiLetters \cup AsciiDigits \cup {"_", "-"}

\* The TOML of the model's blocks: `[table]` headers and `key = value` lines
\* with bare keys, where a value is a string in single or double quotes
\* (without escapes), an integer, a boolean, or an inline table of such
\* values.  A key or a table given twice is an error, as is any other line.
RECURSIVE parse_value(_), parse_key_value(_), parse_entries(_, _, _),
          add_entry(_, _, _, _)
parse_value(text) ==
    LET n == Len(text)
    IN  IF n = 0 THEN TomlError
        ELSE IF text[1] \in {"'", "\""}
        THEN IF n >= 2 /\ text[n] = text[1]
                /\ \A k \in 2..(n - 1) : text[k] \notin {text[1], "\\"}
             THEN [ok |-> TRUE, value |-> TomlString(SubSeq(text, 2, n - 1))]
             ELSE TomlError
        ELSE IF text[1] = "{"
        THEN IF text[n] /= "}" THEN TomlError
             ELSE LET inner == trim(SubSeq(text, 2, n - 1))
                  IN  IF inner = << >> THEN [ok |-> TRUE, value |-> TomlTable(<< >>)]
                      ELSE parse_entries(split(inner, ","), 1, << >>)
        ELSE IF \A k \in 1..n : text[k] \in AsciiDigits
        THEN IF n > 1 /\ text[1] = "0" THEN TomlError
             ELSE [ok |-> TRUE, value |-> TomlInteger]
        ELSE IF text \in {<<"t", "r", "u", "e">>, <<"f", "a", "l", "s", "e">>}
        THEN [ok |-> TRUE, value |-> TomlBoolean]
        ELSE TomlError

\* The entry that `key = value` makes, given the key and the parsed value.
key_value(key, value) ==
    IF key = << >> \/ \E k \in 1..Len(key) : key[k] \notin BareKeyChars
    THEN TomlError
    ELSE IF ~value.ok THEN TomlError
    ELSE [ok |-> TRUE, key |-> key, value |-> value.value]

parse_key_value(text) ==
    LET eq == FirstOf(text, 1, {"="})
    IN  IF eq > Len(text) THEN TomlError
        ELSE key_value(trim(SubSeq(text, 1, eq - 1)),
                       parse_value(trim(SubSeq(text, eq + 1, Len(text)))))

\* The entries of an inline table, from the i-th item.
parse_entries(items, i, entries) ==
    IF i > Len(items) THEN [ok |-> TRUE, value |-> TomlTable(entries)]
    ELSE add_entry(items, i, entries, parse_key_value(trim(items[i])))

\* The entries of an inline table after its i-th item, parsed as kv.
add_entry(items, i, entries, kv) ==
    IF ~kv.ok THEN TomlError
    ELSE IF \E k \in 1..Len(entries) : entries[k].key = kv.key THEN TomlError
    ELSE parse_entries(items, i + 1,
                       Append(entries, [key |-> kv.key, value |-> kv.value]))

\* The lines of a document from the i-th: `root` holds the entries read so
\* far, and `current` names the table that the key = value lines go to
\* (None: the root table).
RECURSIVE parse_lines(_, _, _, _), parse_line(_, _, _, _, _), add_line(_, _, _, _, _)
parse_lines(lines, i, current, root) ==
    IF i > Len(lines) THEN [ok |-> TRUE, value |-> TomlTable(root)]
    ELSE parse_line(lines, i, current, root, trim(lines[i]))

\* The i-th line, trimmed to `line`: empty, a `[table]` header, or key = value.
parse_line(lines, i, current, root, line) ==
    IF line = << >> THEN parse_lines(lines, i + 1, current, root)
    ELSE IF line[1] = "["
    THEN LET name == trim(SubSeq(line, 2, Len(line) - 1))
         IN  IF \/ line[Len(line)] /= "]"
                \/ name = << >>
                \/ \E k \in 1..Len(name) : name[k] \notin BareKeyChars
                \/ \E k \in 1..Len(root) : root[k].key = name
             THEN TomlError
             ELSE parse_lines(lines, i + 1, Some(name),
                              Append(root, [key |-> name, value |-> TomlTable(<< >>)]))
    ELSE add_line(lines, i, current, root, parse_key_value(line))

\* The i-th line, a key = value parsed as kv, goes to the current table.
add_line(lines, i, current, root, kv) ==
    IF ~kv.ok THEN TomlError
    ELSE IF current = None
    THEN IF \E k \in 1..Len(root) : root[k].key = kv.key
         THEN TomlError
         ELSE parse_lines(lines, i + 1, current,
                          Append(root, [key |-> kv.key, value |-> kv.value]))
    ELSE LET t == CHOOSE k \in 1..Len(root) : root[k].key = current[1]
         IN  IF \E k \in 1..Len(root[t].value.entries) :
                    root[t].value.entries[k].key = kv.key
             THEN TomlError
             ELSE parse_lines(lines, i + 1, current,
                      [root EXCEPT ![t].value =
                          TomlTable(Append(root[t].value.entries,
                                           [key |-> kv.key, value |-> kv.value]))])

\* block.parse::<Value>()
parse_toml(block) == parse_lines(split(block, "\n"), 1, None, << >>)

\* semver_parser::range::parse, which makes the requirement that
\* version_matches_request is given.
parse_request(version) == VersionReq_parse(version)

\* ------------------------------------- markdown_deps::extract_version_request

Dependencies == <<"d", "e", "p", "e", "n", "d", "e", "n", "c", "i", "e", "s">>
DevDependencies == <<"d", "e", "v", "-", "d", "e", "p", "e", "n", "d", "e", "n", "c", "i", "e", "s">>

\* A variant that looks for `git` before `version`.
dependency_version_GitFirst(dep) ==
    IF Value_get(dep, <<"g", "i", "t">>) /= None THEN Some(<<"*">>)
    ELSE LET version == Value_get(dep, <<"v", "e", "r", "s", "i", "o", "n">>)
             version_str == IF version /= None THEN Value_as_str(version[1]) ELSE None
         IN  IF version_str /= None THEN version_str ELSE Value_as_str(dep)

\* A variant that does not know `git`.
dependency_version_NoGit(dep) ==
    LET version == Value_get(dep, <<"v", "e", "r", "s", "i", "o", "n">>)
        version_str == IF version /= None THEN Value_as_str(version[1]) ELSE None
    IN  IF version_str /= None THEN version_str ELSE Value_as_str(dep)

\* The closure of lines 26-34: the version a dependency entry states.
dependency_version(dep) ==
    LET version == Value_get(dep, <<"v", "e", "r", "s", "i", "o", "n">>)
        version_str == IF version /= None THEN Value_as_str(version[1]) ELSE None
    IN  IF version_str /= None THEN version_str
        ELSE IF Value_get(dep, <<"g", "i", "t">>) /= None THEN Some(<<"*">>)
        ELSE Value_as_str(dep)

\* Lines 35-42: the requirement that the version of a dependency parses to.
dependency_request(request) ==
    IF ~request.ok
    THEN Err(Format("could not parse dependency: {}", <<request.err>>))
    ELSE [ok |-> TRUE, request |-> request.req]

\* Lines 20-42, given the result of parsing the block.
version_request(pkg_name, parsed) ==
    IF ~parsed.ok THEN Err(Format("TOML parse error: {}", <<parsed.err>>))
    ELSE LET dependencies == Value_get(parsed.value, Dependencies)
             deps == IF dependencies /= None THEN dependencies
                     ELSE Value_get(parsed.value, DevDependencies)
             dep == IF deps /= None THEN Value_get(deps[1], pkg_name) ELSE None
             version == IF dep /= None THEN dependency_version(dep[1]) ELSE None
         IN  IF version = None
             THEN Err(Format("no dependency on {}", <<pkg_name>>))
             ELSE dependency_request(parse_request(version[1]))

extract_version_request(pkg_name, block) ==
    version_request(pkg_name, parse_toml(block))

\* The result for a block whose requirement was extracted as `request`.
request_result(version, request) ==
    IF ~request.ok THEN request
    ELSE version_matches_request(version, request.request)

\* The `result` of check_markdown_deps for one block (lines 137-138).
block_result(pkg_name, version, content) ==
    request_result(version, extract_version_request(pkg_name, content))

\* ------------------------------------- inputs of markdown_deps::tests

DependenciesHeader == <<"[">> \o Dependencies \o <<"]">>
DevDependenciesHeader == <<"[">> \o DevDependencies \o <<"]">>

FooVersionGit == <<"f", "o", "o", " ", "=", " ", "{", " ", "v", "e", "r", "s", "i", "o", "n", " ", "=", " ", "'", "1", ".", "5", "'", ",", " ", "g", "i", "t", " ", "=", " ", "'", "u", "'", " ", "}">>
FooGit == <<"f", "o", "o", " ", "=", " ", "{", " ", "g", "i", "t", " ", "=", " ", "'", "u", "'", " ", "}">>
FooString == <<"f", "o", "o", " ", "=", " ", "'", "1", ".", "0", "'">>
H2String == <<"h", "2", " ", "=", " ", "'", "1", ".", "0", "'">>

\* The lines that state dependencies.
DependencyLines ==
    { FooString,
      FooVersionGit,
      FooGit,
      <<"f", "o", "o", " ", "=", " ", "{", " ", "g", "i", "t", " ", "=", " ", "'", "u", "'", ",", " ", "v", "e", "r", "s", "i", "o", "n", " ", "=", " ", "'", "1", ".", "0", "'", " ", "}">>,
      <<"f", "o", "o", " ", "=", " ", "{", " ", "v", "e", "r", "s", "i", "o", "n", " ", "=", " ", "1", ",", " ", "g", "i", "t", " ", "=", " ", "'", "u", "'", " ", "}">>,
      <<"f", "o", "o", " ", "=", " ", "{", " ", "p", "a", "t", "h", " ", "=", " ", "'", "p", "'", ",", " ", "o", "p", "t", "i", "o", "n", "a", "l", " ", "=", " ", "t", "r", "u", "e", " ", "}">>,
      H2String,
      <<"f", "o", "o", " ", "=", " ", "1">>,
      <<"f", "o", "o", " ", "=">>,
      <<"f", "o", "o", " ", "=", " ", "'", "b", "'">>,
      <<"f", "o", "o", " ", "=", " ", "\"", "0", ".", "1", ".", "0", "\"">>,
      <<"f", "o", "o", " ", "=", " ", "{", " ", "v", "e", "r", "s", "i", "o", "n", " ", "=", " ", "'", "0", "'", ",", " ", "d", "e", "f", "a", "u", "l", "t", "-", "f", "e", "a", "t", "u", "r", "e", "s", " ", "=", " ", "f", "a", "l", "s", "e", " ", "}">> }

\* The texts of code blocks: nothing, one line with or without a table
\* header before it, and both tables with a line each.
Blocks ==
    { << >> }
    \cup DependencyLines
    \cup { JoinLines(<<h, e>>) :
            h \in {DependenciesHeader, DevDependenciesHeader}, e \in DependencyLines }
    \cup { JoinLines(<<DependenciesHeader, e, DevDependenciesHeader, f>>) :
            e \in {FooString, FooGit, H2String}, f \in {FooString, FooGit, H2String} }

\* ------------------------------------------- markdown_deps::is_toml_block

\* A letter outside ASCII (LATIN SMALL LETTER E WITH ACUTE), one character.
EAcute == "U+00E9"

\* char::is_alphanumeric, on the characters of the model.
is_alphanumeric(c) == c \in AsciiLetters \cup AsciiDigits \cup {EAcute, ArabicThree}

\* The closure given to split (line 51), negated: c does not separate tokens.
is_token_char(c) == c = "_" \/ c = "-" \/ is_alphanumeric(c)

\* lang.split(..): the texts between the separators, from position i on,
\* after the tokens `out` and the characters `token` of the current one.
RECURSIVE split_tokens(_, _, _, _)
split_tokens(lang, i, token, out) ==
    IF i > Len(lang) THEN Append(out, token)
    ELSE IF is_token_char(lang[i])
    THEN split_tokens(lang, i + 1, Append(token, lang[i]), out)
    ELSE split_tokens(lang, i + 1, << >>, Append(out, token))

Toml == <<"t", "o", "m", "l">>
NoSync == <<"n", "o", "_", "s", "y", "n", "c">>

\* A variant whose loop returns true at the first token toml: a no_sync
\* after it is not seen.
token_loop_StopAtToml(tokens, k, has_toml) ==
    LET tomls == { j \in k..Len(tokens) : trim(tokens[j]) = Toml }
    IN  IF tomls = {}
        THEN has_toml /\ \A j \in k..Len(tokens) : trim(tokens[j]) /= NoSync
        ELSE \A j \in k..Len(tokens) :
                (\A h \in tomls : j < h) => trim(tokens[j]) /= NoSync

\* The loop of lines 51-57 from the k-th token, and the final has_toml.
RECURSIVE token_loop(_, _, _)
token_loop(tokens, k, has_toml) ==
    IF k > Len(tokens) THEN has_toml
    ELSE IF trim(tokens[k]) = NoSync THEN FALSE
    ELSE IF trim(tokens[k]) = Toml THEN token_loop(tokens, k + 1, TRUE)
    ELSE token_loop(tokens, k + 1, has_toml)

is_toml_block(lang) == token_loop(split_tokens(lang, 1, << >>, << >>), 1, FALSE)

\* The pieces that the language tags of the model are made of: the two
\* tokens, another word, separators, and characters that continue a token.
LangPieces ==
    { Toml, NoSync, Foo, <<",">>, <<" ">>, <<"-">>, <<"_">>, <<EAcute>> }

RECURSIVE Flatten(_)
Flatten(ps) == IF ps = << >> THEN << >> ELSE Head(ps) \o Flatten(Tail(ps))

\* The language tags: up to MaxPieces pieces, one after the other.
Langs == { Flatten(ps) : ps \in SeqsUpTo(LangPieces, MaxPieces) }

\* ---------------------------------------- markdown_deps::find_toml_blocks

\* The character GRAVE ACCENT.
Backtick == "U+0060"
Fence == <<Backtick, Backtick, Backtick>>

\* Parser::new(text).into_offset_iter() and the loop of lines 65-88, on texts
\* whose lines are paragraph text and fences of three backticks at the start
\* of a line, from the i-th line.  `fenced` says that a code block is open,
\* `current` is current_block.  A fence that is never closed ends with the
\* text.
RECURSIVE find_blocks(_, _, _, _, _)
find_blocks(lines, i, fenced, current, code_blocks) ==
    IF i > Len(lines)
    THEN IF current /= None THEN Append(code_blocks, current[1]) ELSE code_blocks
    ELSE IF ~fenced
    THEN IF StartsWithAt(lines[i], 1, Fence)
         THEN find_blocks(lines, i + 1, TRUE,
                  IF is_toml_block(trim(SubSeq(lines[i], 4, Len(lines[i]))))
                  THEN Some([content |-> << >>, first_line |-> (i - 1) + 2])
                  ELSE None,
                  code_blocks)
         ELSE find_blocks(lines, i + 1, FALSE, current, code_blocks)
    ELSE IF trim(lines[i]) = Fence
    THEN find_blocks(lines, i + 1, FALSE, None,
             IF current /= None THEN Append(code_blocks, current[1]) ELSE code_blocks)
    ELSE IF i = Len(lines) /\ lines[i] = << >>
    THEN find_blocks(lines, i + 1, TRUE, current, code_blocks)
    ELSE find_blocks(lines, i + 1, TRUE,
             IF current /= None
             THEN Some([current[1] EXCEPT !.content = @ \o lines[i] \o <<"\n">>])
             ELSE None,
             code_blocks)

find_toml_blocks(text) == find_blocks(split(text, "\n"), 1, FALSE, None, << >>)

\* helpers::indent: four spaces before every line of the text.
indent(text) ==
    LET parts == split(text, "\n")
        ls == IF parts[Len(parts)] = << >> THEN SubSeq(parts, 1, Len(parts) - 1)
              ELSE parts
    IN  JoinLines([k \in 1..Len(ls) |-> <<" ", " ", " ", " ">> \o ls[k]])

\* semver_parser::version::parse, which makes the version that
\* version_matches_request is given.
parse_version(pkg_version) == Version_parse(pkg_version)

\* A variant in which the last block decides.
failed_after_LastWins(failed, result) == ~result.ok

\* `failed` after a block with the given result (lines 139-141).
failed_after(failed, result) == failed \/ ~result.ok

\* What the body of the loop prints for a block with the given result
\* (lines 139-146).
deps_status(path, block, result) ==
    IF ~result.ok
    THEN <<Format("{} (line {}) ... {} in", <<path, block.first_line, result.err>>),
           Format("{}\n", <<indent(block.content)>>)>>
    ELSE <<Format("{} (line {}) ... ok", <<path, block.first_line>>)>>

\* -------------------------------- inputs of markdown_deps::check_markdown_deps

\* The parts of the Markdown files: a paragraph, and fenced code blocks with
\* a language tag and lines of text.
MdParts ==
    { [lang |-> None, lines |-> <<<<"T", "e", "x", "t">>>>],
      [lang |-> Some(Toml), lines |-> <<DependenciesHeader, FooString>>],
      [lang |-> Some(Toml), lines |-> <<DependenciesHeader, H2String>>],
      [lang |-> Some(Toml), lines |-> <<<<"f", "o", "o", " ", "=">>>>],
      [lang |-> Some(Toml \o <<",">> \o NoSync), lines |-> <<DependenciesHeader, H2String>>],
      [lang |-> Some(<<"r", "u", "s", "t">>), lines |-> <<<<"f", "o", "o", " ", "=">>>>] }

\* The lines of a part in the file.
PartLines(part) ==
    IF part.lang = None THEN part.lines
    ELSE <<Fence \o part.lang[1]>> \o part.lines \o <<Fence>>

RECURSIVE FileLinesOf(_)
FileLinesOf(parts) ==
    IF parts = << >> THEN << >> ELSE PartLines(Head(parts)) \o FileLinesOf(Tail(parts))

\* The Markdown files: unreadable, or up to MaxParts parts; `parts` records
\* what the bytes were written from.
MdFiles ==
    {Unreadable}
    \cup { [readable |-> TRUE, bytes |-> JoinLines(FileLinesOf(parts)), parts |-> parts] :
            parts \in SeqsUpTo(MdParts, MaxParts) }

\* --------------------------------------------------------- helpers::read_file

\* A variant that returns the bytes as they are.
read_file_Raw(f) ==
    IF ~f.readable THEN Err("io::Error")
    ELSE [ok |-> TRUE, text |-> f.bytes]

read_file(f) ==
    IF ~f.readable THEN Err("io::Error")
    ELSE [ok |-> TRUE, text |-> replace(f.bytes, <<"\r", "\n">>, <<"\n">>)]

\* text[..start]: what stands before position `start` of the text.
text_before(text, start) == SubSeq(text, 1, start - 1)

\* ------------------------------------ contains_substring::check_contains_substring

check_contains_substring(f, path, template, pkg_name, pkg_version) ==
    LET pattern == replace(replace(template, NamePlaceholder, pkg_name),
                           VersionPlaceholder, pkg_version)
        read == read_file(f)
        searching == Format("Searching for \"{}\" in {}...", <<template, path>>)
    IN  IF ~read.ok
        THEN [ret |-> Err(Format("could not read {}: {}", <<path, read.err>>)),
              out |-> << >>, locals |-> NoLocals]
        ELSE LET idx == find(read.text, pattern)
             IN  IF idx /= None
                 THEN LET line_no == lines_count(text_before(read.text, idx[1]))
                      IN  [ret |-> Ok,
                           out |-> <<searching,
                                     Format("{} (line {}) ... ok", <<path, line_no + 1>>)>>,
                           locals |-> [fn |-> "check_contains_substring",
                                       text |-> read.text, pattern |-> pattern,
                                       start |-> idx, line_no |-> line_no]]
                 ELSE [ret |-> Err(Format("could not find \"{}\" in {}", <<pattern, path>>)),
                       out |-> <<searching>>,
                       locals |-> [fn |-> "check_contains_substring",
                                   text |-> read.text, pattern |-> pattern,
                                   start |-> None]]

\* ------------------------------------------ contains_regex::check_contains_regex

check_contains_regex(f, path, template, pkg_name, pkg_version) ==
    LET pattern == replace(replace(template, NamePlaceholder, escape(pkg_name)),
                           VersionPlaceholder, escape(pkg_version))
        re == compile(pattern)
        read == read_file(f)
        searching == Format("Searching for \"{pattern}\" in {path}...", <<pattern, path>>)
    IN  IF ~re.ok
        THEN [ret |-> Err(Format("could not parse template: {}", <<re.err>>)),
              out |-> << >>, locals |-> NoLocals]
        ELSE IF ~read.ok
        THEN [ret |-> Err(Format("could not read {}: {}", <<path, read.err>>)),
              out |-> << >>, locals |-> NoLocals]
        ELSE LET m == FindFrom(re.re, read.text, 1)
             IN  IF m /= None
                 THEN LET line_no == lines_count(text_before(read.text, m[1].start))
                      IN  [ret |-> Ok,
                           out |-> <<searching,
                                     Format("{} (line {}) ... ok", <<path, line_no + 1>>)>>,
                           locals |-> [fn |-> "check_contains_regex",
                                       text |-> read.text, pattern |-> pattern,
                                       start |-> Some(m[1].start), line_no |-> line_no]]
                 ELSE [ret |-> Err(Format("could not find \"{pattern}\" in {path}",
                                          <<pattern, path>>)),
                       out |-> <<searching>>,
                       locals |-> [fn |-> "check_contains_regex",
                                   text |-> read.text, pattern |-> pattern,
                                   start |-> None]]

\* ------------------------------------- contains_regex::check_only_contains_regex

\* A variant that returns at the first version that does not match.
semver_loop_StopAtMismatch(semvers, k, version, head, errors, out) ==
    IF k > Len(semvers) THEN [ret |-> None, errors |-> errors, out |-> out]
    ELSE LET parsed == VersionReq_parse(semvers[k])
         IN  IF ~parsed.ok
             THEN [ret |-> Some(Err(Format("could not parse version: {}", <<parsed.err>>))),
                   errors |-> errors, out |-> out]
             ELSE LET result == version_matches_request(version, parsed.req)
                  IN  IF ~result.ok
                      THEN [ret |-> Some(Err(Format("{path} ... found {errors} errors",
                                                    <<head.path, errors + 1>>))),
                            errors |-> errors + 1, out |-> out]
                      ELSE [ret |-> None, errors |-> errors,
                            out |-> Append(out, Format("{path} (line {line_no}) ... ok",
                                                       <<head.path, head.line_no>>))]

\* The body of `for m in re.find_iter(&text)` after line_no is set: the loop
\* over the version numbers found in the text of the match, from the k-th.
\* ret is Some(error) when the `?` of line 130 returns from the function.
RECURSIVE semver_loop(_, _, _, _, _, _)
semver_loop(semvers, k, version, head, errors, out) ==
    IF k > Len(semvers) THEN [ret |-> None, errors |-> errors, out |-> out]
    ELSE LET parsed == VersionReq_parse(semvers[k])
         IN  IF ~parsed.ok
             THEN [ret |-> Some(Err(Format("could not parse version: {}", <<parsed.err>>))),
                   errors |-> errors, out |-> out]
             ELSE LET result == version_matches_request(version, parsed.req)
                  IN  IF ~result.ok
                      THEN semver_loop(semvers, k + 1, version, head, errors + 1,
                              Append(out,
                                  Format("{} (line {}) ... found \"{}\", which does not match version \"{}\": {}",
                                         <<head.path, head.line_no, semvers[k],
                                           head.pkg_version, result.err>>)))
                      ELSE semver_loop(semvers, k + 1, version, head, errors,
                              Append(out, Format("{path} (line {line_no}) ... ok",
                                                 <<head.path, head.line_no>>)))

\* semver_re.find_iter(m.as_str()), each match as its text.
semvers_in(str) ==
    LET ms == find_iter(SEMVER_RE, str)
    IN  [k \in 1..Len(ms) |-> as_str(str, ms[k])]

\* A variant that does not test has_match.
after_loop_NoMatchIsOk(path, template, has_match, errors) ==
    IF errors > 0
    THEN Err(Format("{path} ... found {errors} errors", <<path, errors>>))
    ELSE Ok

\* What the function returns after the loop.
after_loop(path, template, has_match, errors) ==
    IF ~has_match
    THEN Err(Format("{path} ... found no matches for \"{template}\"", <<path, template>>))
    ELSE IF errors > 0
    THEN Err(Format("{path} ... found {errors} errors", <<path, errors>>))
    ELSE Ok

\* ------------------------------------- checks run by the threads of a test run

\* The test runner has a thread for each of two checks, each on its own file.
Threads == {"only", "deps"}
ChangelogPath == "CHANGELOG.md"

\* The inputs of the two checks: files of one line or one part, or unreadable.
ThreadFiles ==
    { f \in Files : f.readable => \E l \in FileLines : f.bytes = l }
ThreadTemplates ==
    { NamePlaceholder \o <<"/">> \o VersionPlaceholder \o <<"/">> \o NamePlaceholder,
      NamePlaceholder \o <<"/">> }
ThreadMdFiles ==
    { f \in MdFiles : f.readable => Len(f.parts) = 1 }

\* ------------------------------------------------ the steps of the checks

\* What a step of a check leaves: where the check stands, its result (NoRet
\* while it runs), its local variables, and stdout.
Returned(e) == [pc |-> "returned", ret |-> Err(e), locals |-> NoLocals, out |-> << >>]

\* check_only_contains_regex up to its loop (lines 105-122): the package
\* version is parsed, the template expanded and compiled, the file read.
only_begin(f, path, template, pkg_name, pkg_version) ==
    LET version == Version_parse(pkg_version)
        pattern == replace(replace(template, NamePlaceholder, escape(pkg_name)),
                           VersionPlaceholder, <<SemverText>>)
        re == compile(pattern)
        read == read_file(f)
    IN  IF ~version.ok
        THEN Returned(Format("bad package version {:?}: {}", <<pkg_version, version.err>>))
        ELSE IF ~re.ok
        THEN Returned(Format("could not parse template: {}", <<re.err>>))
        ELSE IF ~read.ok
        THEN Returned(Format("could not read {}: {}", <<path, read.err>>))
        ELSE [pc |-> "only_loop",
              ret |-> NoRet,
              out |-> <<Format("Searching for \"{template}\" in {path}...",
                               <<template, path>>)>>,
              locals |-> [fn |-> "check_only_contains_regex",
                          version |-> version.version,
                          pattern |-> pattern,
                          text |-> read.text,
                          matches |-> find_iter(re.re, read.text),
                          next |-> 1,
                          line_no |-> 0,
                          errors |-> 0,
                          has_match |-> FALSE]]

\* One iteration of `for m in re.find_iter(&text)` (lines 124-149), given the
\* line of the match and the result r of its inner loop.
only_iterate_result(l, line_no, r) ==
    IF r.ret /= None
    THEN [pc |-> "returned", ret |-> r.ret[1], out |-> r.out,
          locals |-> [l EXCEPT !.has_match = TRUE, !.line_no = line_no,
                               !.errors = r.errors]]
    ELSE [pc |-> "only_loop", ret |-> NoRet, out |-> r.out,
          locals |-> [l EXCEPT !.has_match = TRUE, !.line_no = line_no,
                               !.errors = r.errors, !.next = l.next + 1]]

only_iterate(a, l, out) ==
    LET line_no == lines_count(text_before(l.text, l.matches[l.next].start)) + 1
    IN  only_iterate_result(l, line_no,
            semver_loop(semvers_in(as_str(l.text, l.matches[l.next])), 1, l.version,
                        [path |-> a.path, line_no |-> line_no,
                         pkg_version |-> a.pkg_version],
                        l.errors, out))

\* The iterator is exhausted: the function returns (lines 151-161).
only_end(a, l, out) ==
    [pc |-> "returned", ret |-> after_loop(a.path, a.template, l.has_match, l.errors),
     locals |-> l, out |-> out]

\* check_markdown_deps up to its loop (lines 130-135): the file is read, the
\* package version parsed, and the TOML blocks are found.
deps_begin(f, path, pkg_name, pkg_version) ==
    LET read == read_file(f)
        version == parse_version(pkg_version)
    IN  IF ~read.ok
        THEN Returned(Format("could not read {}: {}", <<path, read.err>>))
        ELSE IF ~version.ok
        THEN Returned(Format("bad package version {:?}: {}", <<pkg_version, version.err>>))
        ELSE [pc |-> "deps_loop",
              ret |-> NoRet,
              out |-> <<Format("Checking code blocks in {}...", <<path>>)>>,
              locals |-> [fn |-> "check_markdown_deps",
                          version |-> version.version,
                          blocks |-> find_toml_blocks(read.text),
                          next |-> 1,
                          failed |-> FALSE]]

\* A variant that takes `failed` from the error lines on stdout.
deps_iterate_FromStdout(a, l, out) ==
    LET result == block_result(a.pkg_name, l.version, l.blocks[l.next].content)
        lines == out \o deps_status(a.path, l.blocks[l.next], result)
    IN  [pc |-> "deps_loop", ret |-> NoRet,
         out |-> lines,
         locals |-> [l EXCEPT
                        !.failed = \E k \in 1..Len(lines) :
                                      lines[k].fmt \notin
                                        {"Searching for \"{template}\" in {path}...",
                                         "Checking code blocks in {}...",
                                         "{path} (line {line_no}) ... ok",
                                         "{} (line {}) ... ok",
                                         "{}\n"},
                        !.next = @ + 1]]

\* One iteration of `for block in find_toml_blocks(&text)` (lines 136-147).
deps_iterate(a, l, out) ==
    LET result == block_result(a.pkg_name, l.version, l.blocks[l.next].content)
    IN  [pc |-> "deps_loop", ret |-> NoRet,
         out |-> out \o deps_status(a.path, l.blocks[l.next], result),
         locals |-> [l EXCEPT !.failed = failed_after(@, result), !.next = @ + 1]]

\* The loop is over: the function returns (lines 149-152).
deps_end(a, l, out) ==
    [pc |-> "returned",
     ret |-> IF l.failed THEN Err(Format("dependency errors in {}", <<a.path>>)) ELSE Ok,
     locals |-> l, out |-> out]

\* ---------------------------------------- html_root_url::check_html_root_url

\* An inner doc attribute with an html_root_url, written on one line.
AttrOpen == <<"#", "!", "[", "d", "o", "c", "(", "h", "t", "m", "l", "_", "r", "o", "o", "t", "_", "u", "r", "l", " ", "=", " ", "\"">>
AttrClose == <<"\"", ")", "]">>

is_root_url_attr(line) ==
    /\ Len(line) >= Len(AttrOpen) + Len(AttrClose)
    /\ StartsWithAt(line, 1, AttrOpen)
    /\ StartsWithAt(line, Len(line) - Len(AttrClose) + 1, AttrClose)

\* The string literal of the attribute.
root_url_value(line) == SubSeq(line, Len(AttrOpen) + 1, Len(line) - Len(AttrClose))

\* An item, and a line that is no Rust code.
RustItem == <<"f", "n", " ", "f", "(", ")", " ", "{", "}">>
RustBroken == <<"f", "n", " ", "(">>

\* syn::parse_file on the lines of a file, each line an inner attribute, an
\* item, empty, or no Rust code: the inner attributes of the crate with their
\* lines, or an error.  Inner attributes stand before the first item.
RECURSIVE parse_items(_, _, _, _)
parse_items(ls, i, in_items, attrs) ==
    IF i > Len(ls) THEN [ok |-> TRUE, attrs |-> attrs]
    ELSE IF ls[i] = << >> THEN parse_items(ls, i + 1, in_items, attrs)
    ELSE IF is_root_url_attr(ls[i])
    THEN IF in_items THEN Err("syn::Error")
         ELSE parse_items(ls, i + 1, FALSE,
                          Append(attrs, [value |-> root_url_value(ls[i]), line |-> i]))
    ELSE IF ls[i] = RustItem THEN parse_items(ls, i + 1, TRUE, attrs)
    ELSE Err("syn::Error")

parse_file(code) == parse_items(split(code, "\n"), 1, FALSE, << >>)

\* A variant that parses the package version before it reads the file.
html_begin_VersionFirst(f, path, pkg_name, pkg_version) ==
    LET read == read_file(f)
        version == Version_parse(pkg_version)
    IN  IF ~version.ok
        THEN Returned(Format("bad package version {:?}: {}", <<pkg_version, version.err>>))
        ELSE IF ~read.ok
        THEN Returned(Format("could not read {}: {}", <<path, read.err>>))
        ELSE IF ~parse_file(read.text).ok
        THEN Returned(Format("could not parse {}: please run \"cargo build\"", <<path>>))
        ELSE [pc |-> "html_loop",
              ret |-> NoRet,
              out |-> <<Format("Checking doc attributes in {path}...", <<path>>)>>,
              locals |-> [fn |-> "check_html_root_url",
                          version |-> version.version,
                          code |-> read.text,
                          attrs |-> parse_file(read.text).attrs,
                          next |-> 1]]

\* check_html_root_url up to its loop (lines 69-75): the file is read, the
\* package version parsed, and the file parsed as Rust code.
html_begin(f, path, pkg_name, pkg_version) ==
    LET read == read_file(f)
        version == Version_parse(pkg_version)
    IN  IF ~read.ok
        THEN Returned(Format("could not read {}: {}", <<path, read.err>>))
        ELSE IF ~version.ok
        THEN Returned(Format("bad package version {:?}: {}", <<pkg_version, version.err>>))
        ELSE IF ~parse_file(read.text).ok
        THEN Returned(Format("could not parse {}: please run \"cargo build\"", <<path>>))
        ELSE [pc |-> "html_loop",
              ret |-> NoRet,
              out |-> <<Format("Checking doc attributes in {path}...", <<path>>)>>,
              locals |-> [fn |-> "check_html_root_url",
                          version |-> version.version,
                          code |-> read.text,
                          attrs |-> parse_file(read.text).attrs,
                          next |-> 1]]

\* One iteration of `for attr in krate.attrs` (lines 76-140) with the result
\* of url_matches for the attribute: a status line, and on an error the
\* source line and the return.
html_iterate_result(a, l, out, attr, check_result) ==
    IF check_result.ok
    THEN [pc |-> "html_loop", ret |-> NoRet,
          out |-> Append(out, Format("{} (line {}) ... ok", <<a.path, attr.line>>)),
          locals |-> [l EXCEPT !.next = @ + 1]]
    ELSE [pc |-> "returned",
          ret |-> Err(Format("html_root_url errors in {}", <<a.path>>)),
          out |-> out \o <<Format("{} (line {}) ... {} in",
                                  <<a.path, attr.line, check_result.err>>),
                           Format("{}", <<indent(split(l.code, "\n")[attr.line])>>)>>,
          locals |-> l]

html_iterate(a, l, out) ==
    html_iterate_result(a, l, out, l.attrs[l.next],
                        url_matches(l.attrs[l.next].value, a.pkg_name, l.version))

\* Every attribute has been looked at: the function returns (line 142).
html_end(a, l, out) == [pc |-> "returned", ret |-> Ok, locals |-> l, out |-> out]

\* ------------------------------------------ inputs of check_html_root_url

RootUrlLine(name, version) ==
    AttrOpen \o <<"h", "t", "t", "p", "s", ":", "/", "/">> \o DocsRs \o <<"/">> \o name
             \o <<"/">> \o version \o AttrClose

RustLines == { RootUrlLine(Foo, V100), RootUrlLine(Foo, V200), RustItem, RustBroken }

RustFiles ==
    {Unreadable}
    \cup { [readable |-> TRUE, bytes |-> JoinLines(ls)] : ls \in SeqsUpTo(RustLines, MaxLines) }

\* ------------------------------------------------------------------ actions

Init ==
    /\ pc = "idle"
    /\ args = NoArgs
    /\ locals = NoLocals
    /\ stdout = << >>
    /\ ret = NoRet
    /\ file = NoFile

\* A caller applies version_matches_request to a version and a requirement.
CallVersionMatchesRequest ==
    /\ pc = "idle"
    /\ \E v \in Versions, r \in Requests :
        /\ args' = [fn |-> "version_matches_request", version |-> v, request |-> r]
        /\ ret' = version_matches_request(v, r)
    /\ pc' = "returned"
    /\ UNCHANGED <<locals, stdout, file>>

\* A test calls check_contains_substring; the whole function is one step.
CallCheckContainsSubstring ==
    /\ pc = "idle"
    /\ \E f \in Files, t \in Templates, n \in PkgNames, v \in PkgVersions :
        LET r == check_contains_substring(f, Path, t, n, v)
        IN  /\ file' = f
            /\ args' = [fn |-> "check_contains_substring", path |-> Path,
                        template |-> t, pkg_name |-> n, pkg_version |-> v]
            /\ ret' = r.ret
            /\ stdout' = r.out
            /\ locals' = r.locals
    /\ pc' = "returned"

\* A test calls check_contains_regex; the whole function is one step.
CallCheckContainsRegex ==
    /\ pc = "idle"
    /\ \E f \in Files, t \in Templates, n \in PkgNames, v \in PkgVersions :
        LET r == check_contains_regex(f, Path, t, n, v)
        IN  /\ file' = f
            /\ args' = [fn |-> "check_contains_regex", path |-> Path,
                        template |-> t, pkg_name |-> n, pkg_version |-> v]
            /\ ret' = r.ret
            /\ stdout' = r.out
            /\ locals' = r.locals
    /\ pc' = "returned"

\* The variables that a step of a check writes take what the step leaves.
Take(r) ==
    /\ pc' = r.pc
    /\ ret' = r.ret
    /\ locals' = r.locals
    /\ stdout' = r.out

\* A test calls check_only_contains_regex, which runs up to its loop.
BeginCheckOnlyContainsRegex ==
    /\ pc = "idle"
    /\ \E f \in Files, t \in Templates, n \in PkgNames, v \in PkgVersions :
        /\ file' = f
        /\ args' = [fn |-> "check_only_contains_regex", path |-> Path,
                    template |-> t, pkg_name |-> n, pkg_version |-> v]
        /\ Take(only_begin(f, Path, t, n, v))

\* One iteration of `for m in re.find_iter(&text)` (lines 124-149).
IterateCheckOnlyContainsRegex ==
    /\ pc = "only_loop"
    /\ locals.next <= Len(locals.matches)
    /\ Take(only_iterate(args, locals, stdout))
    /\ UNCHANGED <<args, file>>

\* The iterator is exhausted: the function returns (lines 151-161).
EndCheckOnlyContainsRegex ==
    /\ pc = "only_loop"
    /\ locals.next > Len(locals.matches)
    /\ Take(only_end(args, locals, stdout))
    /\ UNCHANGED <<args, file>>

\* tests::escaping: check_contains_regex on a package name and a version that
\* hold regex metacharacters.
CallCheckContainsRegexEscaping ==
    /\ pc = "idle"
    /\ \E f \in EscapingFiles, t \in EscapingTemplates,
          n \in EscapingNames, v \in EscapingVersions :
        LET r == check_contains_regex(f, Path, t, n, v)
        IN  /\ file' = f
            /\ args' = [fn |-> "check_contains_regex", path |-> Path,
                        template |-> t, pkg_name |-> n, pkg_version |-> v]
            /\ ret' = r.ret
            /\ stdout' = r.out
            /\ locals' = r.locals
    /\ pc' = "returned"

\* tests::line_boundaries: check_contains_substring on a file written with
\* one line ending throughout; the package name and version are empty.
CallCheckContainsSubstringEol ==
    /\ pc = "idle"
    /\ \E f \in EolFiles, t \in EolTemplates :
        LET r == check_contains_substring(f, Path, t, << >>, << >>)
        IN  /\ file' = f
            /\ args' = [fn |-> "check_contains_substring", path |-> Path,
                        template |-> t, pkg_name |-> << >>, pkg_version |-> << >>]
            /\ ret' = r.ret
            /\ stdout' = r.out
            /\ locals' = r.locals
    /\ pc' = "returned"

\* tests::line_boundaries: check_contains_regex on such a file.
CallCheckContainsRegexEol ==
    /\ pc = "idle"
    /\ \E f \in EolFiles, t \in EolTemplates :
        LET r == check_contains_regex(f, Path, t, << >>, << >>)
        IN  /\ file' = f
            /\ args' = [fn |-> "check_contains_regex", path |-> Path,
                        template |-> t, pkg_name |-> << >>, pkg_version |-> << >>]
            /\ ret' = r.ret
            /\ stdout' = r.out
            /\ locals' = r.locals
    /\ pc' = "returned"

\* A check calls read_file on the file at the path.
CallReadFile ==
    /\ pc = "idle"
    /\ \E f \in ReadFiles :
        /\ file' = f
        /\ args' = [fn |-> "read_file", path |-> Path]
        /\ ret' = read_file(f)
    /\ pc' = "returned"
    /\ UNCHANGED <<locals, stdout>>

\* A caller hands check_contains_substring a name or a version that holds
\* the text of a placeholder.
CallCheckContainsSubstringExpansion ==
    /\ pc = "idle"
    /\ \E f \in ExpansionFiles, t \in ExpansionTemplates,
          n \in ExpansionNames, v \in ExpansionVersions :
        LET r == check_contains_substring(f, Path, t, n, v)
        IN  /\ file' = f
            /\ args' = [fn |-> "check_contains_substring", path |-> Path,
                        template |-> t, pkg_name |-> n, pkg_version |-> v]
            /\ ret' = r.ret
            /\ stdout' = r.out
            /\ locals' = r.locals
    /\ pc' = "returned"

\* A caller (check_html_root_url, a test) applies url_matches to the value of
\* an html_root_url attribute.
CallUrlMatches ==
    /\ pc = "idle"
    /\ \E value \in UrlValues, n \in PkgNames, v \in Versions :
        LET parsed == Url_parse(value)
        IN  /\ args' = [fn |-> "url_matches", value |-> value,
                        pkg_name |-> n, version |-> v]
            /\ locals' = IF parsed.ok THEN [fn |-> "url_matches", url |-> parsed.url]
                         ELSE NoLocals
            /\ ret' = url_matches(value, n, v)
    /\ pc' = "returned"
    /\ UNCHANGED <<stdout, file>>

\* A caller (check_markdown_deps, a test) applies extract_version_request to
\* the text of a code block.
CallExtractVersionRequest ==
    /\ pc = "idle"
    /\ \E n \in PkgNames, block \in Blocks :
        /\ args' = [fn |-> "extract_version_request", pkg_name |-> n, block |-> block]
        /\ ret' = extract_version_request(n, block)
    /\ pc' = "returned"
    /\ UNCHANGED <<locals, stdout, file>>

\* check_markdown_deps computes the `result` of one block (lines 137-138).
CheckBlock ==
    /\ pc = "idle"
    /\ \E n \in PkgNames, v \in Versions, block \in Blocks :
        /\ args' = [fn |-> "check_markdown_deps", pkg_name |-> n, version |-> v,
                    block |-> block]
        /\ ret' = block_result(n, v, block)
    /\ pc' = "returned"
    /\ UNCHANGED <<locals, stdout, file>>

\* find_toml_blocks asks is_toml_block about the language tag of a fence.
CallIsTomlBlock ==
    /\ pc = "idle"
    /\ \E lang \in Langs :
        /\ args' = [fn |-> "is_toml_block", lang |-> lang]
        /\ ret' = [ok |-> TRUE, value |-> is_toml_block(lang)]
    /\ pc' = "returned"
    /\ UNCHANGED <<locals, stdout, file>>

\* A test calls check_markdown_deps, which runs up to its loop.
BeginCheckMarkdownDeps ==
    /\ pc = "idle"
    /\ \E f \in MdFiles, n \in PkgNames, v \in PkgVersions :
        /\ file' = f
        /\ args' = [fn |-> "check_markdown_deps", path |-> Path,
                    pkg_name |-> n, pkg_version |-> v]
        /\ Take(deps_begin(f, Path, n, v))

\* One iteration of `for block in find_toml_blocks(&text)` (lines 136-147).
IterateCheckMarkdownDeps ==
    /\ pc = "deps_loop"
    /\ locals.next <= Len(locals.blocks)
    /\ Take(deps_iterate(args, locals, stdout))
    /\ UNCHANGED <<args, file>>

\* The loop is over: the function returns (lines 149-152).
EndCheckMarkdownDeps ==
    /\ pc = "deps_loop"
    /\ locals.next > Len(locals.blocks)
    /\ Take(deps_end(args, locals, stdout))
    /\ UNCHANGED <<args, file>>

\* A test calls check_html_root_url; the step runs it up to its loop.
BeginCheckHtmlRootUrl ==
    /\ pc = "idle"
    /\ \E f \in RustFiles, n \in PkgNames, v \in PkgVersions :
        /\ file' = f
        /\ args' = [fn |-> "check_html_root_url", path |-> Path,
                    pkg_name |-> n, pkg_version |-> v]
        /\ Take(html_begin(f, Path, n, v))

\* One iteration of `for attr in krate.attrs` (lines 76-140).
IterateCheckHtmlRootUrl ==
    /\ pc = "html_loop"
    /\ locals.next <= Len(locals.attrs)
    /\ Take(html_iterate(args, locals, stdout))
    /\ UNCHANGED <<args, file>>

\* The loop is over: the function returns (line 142).
EndCheckHtmlRootUrl ==
    /\ pc = "html_loop"
    /\ locals.next > Len(locals.attrs)
    /\ Take(html_end(args, locals, stdout))
    /\ UNCHANGED <<args, file>>

\* The state of a test run with a thread for each check.
InitThreads ==
    /\ pc = [t \in Threads |-> "idle"]
    /\ args = [t \in Threads |-> NoArgs]
    /\ locals = [t \in Threads |-> NoLocals]
    /\ ret = [t \in Threads |-> NoRet]
    /\ file = [t \in Threads |-> NoFile]
    /\ stdout = << >>

\* The thread t takes what a step of its check leaves; stdout is the one of
\* the process.
TakeIn(t, r) ==
    /\ pc' = [pc EXCEPT ![t] = r.pc]
    /\ ret' = [ret EXCEPT ![t] = r.ret]
    /\ locals' = [locals EXCEPT ![t] = r.locals]
    /\ stdout' = r.out

\* The same for the first step, whose lines come after those on stdout.
BeginIn(t, f, a, r) ==
    /\ file' = [file EXCEPT ![t] = f]
    /\ args' = [args EXCEPT ![t] = a]
    /\ TakeIn(t, [r EXCEPT !.out = stdout \o @])

ThreadOnlyBegin ==
    /\ pc["only"] = "idle"
    /\ \E f \in ThreadFiles, t \in ThreadTemplates, v \in PkgVersions :
        BeginIn("only", f,
                [fn |-> "check_only_contains_regex", path |-> ChangelogPath,
                 template |-> t, pkg_name |-> Foo, pkg_version |-> v],
                only_begin(f, ChangelogPath, t, Foo, v))

ThreadOnlyIterate ==
    /\ pc["only"] = "only_loop"
    /\ locals["only"].next <= Len(locals["only"].matches)
    /\ TakeIn("only", only_iterate(args["only"], locals["only"], stdout))
    /\ UNCHANGED <<args, file>>

ThreadOnlyEnd ==
    /\ pc["only"] = "only_loop"
    /\ locals["only"].next > Len(locals["only"].matches)
    /\ TakeIn("only", only_end(args["only"], locals["only"], stdout))
    /\ UNCHANGED <<args, file>>

ThreadDepsBegin ==
    /\ pc["deps"] = "idle"
    /\ \E f \in ThreadMdFiles, v \in PkgVersions :
        BeginIn("deps", f,
                [fn |-> "check_markdown_deps", path |-> Path,
                 pkg_name |-> Foo, pkg_version |-> v],
                deps_begin(f, Path, Foo, v))

ThreadDepsIterate ==
    /\ pc["deps"] = "deps_loop"
    /\ locals["deps"].next <= Len(locals["deps"].blocks)
    /\ TakeIn("deps", deps_iterate(args["deps"], locals["deps"], stdout))
    /\ UNCHANGED <<args, file>>

ThreadDepsEnd ==
    /\ pc["deps"] = "deps_loop"
    /\ locals["deps"].next > Len(locals["deps"].blocks)
    /\ TakeIn("deps", deps_end(args["deps"], locals["deps"], stdout))
    /\ UNCHANGED <<args, file>>

\* Both checks have returned and the test run is over.
JoinThreads ==
    /\ \A t \in Threads : pc[t] = "returned"
    /\ pc' = [t \in Threads |-> "idle"]
    /\ args' = [t \in Threads |-> NoArgs]
    /\ locals' = [t \in Threads |-> NoLocals]
    /\ ret' = [t \in Threads |-> NoRet]
    /\ file' = [t \in Threads |-> NoFile]
    /\ stdout' = << >>

\* The caller has its result and the program is ready for the next call.
Finish ==
    /\ pc = "returned"
    /\ pc' = "idle"
    /\ args' = NoArgs
    /\ locals' = NoLocals
    /\ stdout' = << >>
    /\ ret' = NoRet
    /\ file' = NoFile

NextVersion == CallVersionMatchesRequest \/ Finish

SpecVersion == Init /\ [][NextVersion]_vars

NextContains ==
    \/ CallCheckContainsSubstring
    \/ CallCheckContainsRegex
    \/ BeginCheckOnlyContainsRegex
    \/ IterateCheckOnlyContainsRegex
    \/ EndCheckOnlyContainsRegex
    \/ Finish

SpecContains == Init /\ [][NextContains]_vars

NextEscaping == CallCheckContainsRegexEscaping \/ Finish

SpecEscaping == Init /\ [][NextEscaping]_vars

NextEol == CallCheckContainsSubstringEol \/ CallCheckContainsRegexEol \/ Finish

SpecEol == Init /\ [][NextEol]_vars

NextExpansion == CallCheckContainsSubstringExpansion \/ Finish

SpecExpansion == Init /\ [][NextExpansion]_vars

NextRead == CallReadFile \/ Finish

SpecRead == Init /\ [][NextRead]_vars

NextUrl == CallUrlMatches \/ Finish

SpecUrl == Init /\ [][NextUrl]_vars

NextDeps == CallExtractVersionRequest \/ CheckBlock \/ Finish

SpecDeps == Init /\ [][NextDeps]_vars

NextLang == CallIsTomlBlock \/ Finish

SpecLang == Init /\ [][NextLang]_vars

NextMarkdown ==
    \/ BeginCheckMarkdownDeps
    \/ IterateCheckMarkdownDeps
    \/ EndCheckMarkdownDeps
    \/ Finish

SpecMarkdown == Init /\ [][NextMarkdown]_vars

\* Every check that reads a file, called with inputs of which any may be bad.
NextChecks ==
    \/ CallCheckContainsRegex
    \/ BeginCheckOnlyContainsRegex
    \/ IterateCheckOnlyContainsRegex
    \/ EndCheckOnlyContainsRegex
    \/ BeginCheckMarkdownDeps
    \/ IterateCheckMarkdownDeps
    \/ EndCheckMarkdownDeps
    \/ BeginCheckHtmlRootUrl
    \/ IterateCheckHtmlRootUrl
    \/ EndCheckHtmlRootUrl
    \/ Finish

SpecChecks == Init /\ [][NextChecks]_vars

NextThreads ==
    \/ ThreadOnlyBegin
    \/ ThreadOnlyIterate
    \/ ThreadOnlyEnd
    \/ ThreadDepsBegin
    \/ ThreadDepsIterate
    \/ ThreadDepsEnd
    \/ JoinThreads

SpecThreads == InitThreads /\ [][NextThreads]_vars

\* ------------------------------------------- claims: version_matches_request

\* A call of version_matches_request has returned.
Matched == pc = "returned" /\ args.fn = "version_matches_request"

\* The call was made with a requirement of exactly one comparator.
MatchedOne == Matched /\ Len(args.request.comparators) = 1

MajorFmt == "expected major version {}, found {}"
MinorFmt == "expected minor version {}, found {}"
PatchFmt == "expected patch version {}, found {}"
PreFmt == "expected pre-release \"{}\", found \"{}\""

\* The components among major, minor and patch that the comparator states and
\* that differ from the version's.
Differing(v, c) ==
    { k \in {"major", "minor", "patch"} :
        \/ k = "major" /\ c.major /= v.major
        \/ k = "minor" /\ c.minor /= None /\ c.minor[1] /= v.minor
        \/ k = "patch" /\ c.patch /= None /\ c.patch[1] /= v.patch }

FmtOf(k) ==
    CASE k = "major" -> MajorFmt
      [] k = "minor" -> MinorFmt
      [] k = "patch" -> PatchFmt
      [] k = "pre" -> PreFmt

\* C1: with one tilde or caret comparator that states major, minor, patch and
\* pre-release, the call succeeds when all four equal the version's, and when
\* exactly one of major, minor, patch differs (pre-release equal) it fails with
\* the message of that component.
C1_CompatibilitySymmetry ==
    MatchedOne =>
        LET v == args.version
            c == args.request.comparators[1]
        IN  (/\ c.op \in {"Tilde", "Caret"}
             /\ c.minor /= None /\ c.patch /= None
             /\ c.pre = v.pre)
            => /\ (Differing(v, c) = {} => ret.ok)
               /\ \A k \in {"major", "minor", "patch"} :
                    Differing(v, c) = {k} => ~ret.ok /\ ret.err.fmt = FmtOf(k)

\* C1 witness: a tilde comparator equal to the version but for its patch, and
\* the call failed naming the patch.
C1_Witness ==
    /\ MatchedOne
    /\ LET v == args.version
           c == args.request.comparators[1]
       IN  /\ c.op = "Tilde" /\ c.minor /= None /\ c.patch /= None
           /\ c.pre = v.pre /\ v.pre /= << >>
           /\ Differing(v, c) = {"patch"}
    /\ ~ret.ok /\ ret.err.fmt = PatchFmt

\* The call was made with the bare requirement "M" or "M.m" that shares its
\* stated prefix with the version.
SharesPrefix ==
    /\ MatchedOne
    /\ LET v == args.version
           c == args.request.comparators[1]
       IN  /\ c.op = "Caret" /\ c.patch = None
           /\ Differing(v, c) = {}

\* C2 as stated: a requirement of only a major, or only major.minor, succeeds
\* against every version sharing that prefix, whatever its pre-release.
C2_Original == SharesPrefix => ret.ok

\* C2 amended: such a requirement succeeds exactly against the versions of that
\* prefix without a pre-release; against one with a pre-release it fails with
\* the pre-release message, expected the version's tag and found the empty tag.
C2_PrefixWithoutPreRelease ==
    SharesPrefix =>
        /\ (ret.ok <=> args.version.pre = << >>)
        /\ (~ret.ok => /\ ret.err.fmt = PreFmt
                       /\ ret.err.args = <<args.version.pre, << >> >>)

\* C2 witness: "M.m" against a version M.m.p-tag was refused.
C2_Witness ==
    /\ SharesPrefix
    /\ args.request.comparators[1].minor /= None
    /\ args.version.pre /= << >>
    /\ ~ret.ok

\* The comparator leaves the version alone: its operator is not one of the six
\* that are checked, or what it states equals the version's.
Agrees(v, c) ==
    \/ c.op \notin {"Tilde", "Caret", "Exact", "Greater", "GreaterEq", "Wildcard"}
    \/ (Differing(v, c) = {} /\ c.pre = v.pre)

\* C3 as stated: a requirement whose number of comparators is not 1 succeeds.
C3_Original ==
    (Matched /\ Len(args.request.comparators) /= 1) => ret.ok

\* C3 amended: a requirement of no comparator succeeds; one of two or more
\* succeeds exactly when each comparator has an unchecked operator or states
\* nothing that differs from the version.
C3_SeveralComparators ==
    (Matched /\ Len(args.request.comparators) /= 1) =>
        (ret.ok <=> \A i \in 1..Len(args.request.comparators) :
                        Agrees(args.version, args.request.comparators[i]))

\* C3 witness: a requirement of two comparators was refused.
C3_Witness ==
    /\ Matched
    /\ Len(args.request.comparators) = 2
    /\ ~ret.ok

\* C4 as stated: one comparator with operator <, > or >= always succeeds.
C4_Original ==
    (MatchedOne /\ args.request.comparators[1].op \in {"Less", "Greater", "GreaterEq"})
        => ret.ok

\* C4 amended: one comparator with operator < or <= always succeeds, whatever
\* its components are.
C4_LessAlwaysSucceeds ==
    (MatchedOne /\ args.request.comparators[1].op \in {"Less", "LessEq"})
        => ret.ok

\* C4 witness: a comparator < with another major, minor and patch than the
\* version's, and the call succeeded.
C4_Witness ==
    /\ MatchedOne
    /\ LET v == args.version
           c == args.request.comparators[1]
       IN  /\ c.op = "Less"
           /\ Differing(v, c) = {"major", "minor", "patch"}
    /\ ret.ok

\* The message for the most significant component of c that differs from v.
FirstDifference(v, c) ==
    IF c.major /= v.major
    THEN [fmt |-> MajorFmt, args |-> <<v.major, c.major>>]
    ELSE IF "minor" \in Differing(v, c)
    THEN [fmt |-> MinorFmt, args |-> <<v.minor, c.minor[1]>>]
    ELSE IF "patch" \in Differing(v, c)
    THEN [fmt |-> PatchFmt, args |-> <<v.patch, c.patch[1]>>]
    ELSE [fmt |-> PreFmt, args |-> <<v.pre, c.pre>>]

\* C5: a failed call reports the first comparator that does not agree with the
\* version, and of it the most significant differing component in the order
\* major, minor, patch, pre-release, with the version's component as
\* "expected" and the comparator's as "found".
C5_MostSignificantDifference ==
    (Matched /\ ~ret.ok) =>
        \E i \in 1..Len(args.request.comparators) :
            /\ \A j \in 1..(i - 1) : Agrees(args.version, args.request.comparators[j])
            /\ ~Agrees(args.version, args.request.comparators[i])
            /\ ret.err = FirstDifference(args.version, args.request.comparators[i])

\* C5 witness: minor, patch and pre-release all differ and the minor was named,
\* expected 1 (the version's) and found 0 (the comparator's).
C5_Witness ==
    /\ MatchedOne
    /\ LET v == args.version
           c == args.request.comparators[1]
       IN  /\ Differing(v, c) = {"minor", "patch"}
           /\ c.pre /= v.pre
           /\ v.minor = 1
    /\ ~ret.ok
    /\ ret.err.fmt = MinorFmt /\ ret.err.args = <<1, 0>>

\* ---------------------------------------- claims: check_only_contains_regex

\* check_only_contains_regex got past the compilation of the pattern and the
\* reading of the file.
OnlyRan == args.fn = "check_only_contains_regex" /\ locals /= NoLocals
OnlyReturned == pc = "returned" /\ OnlyRan

NoMatchFmt == "{path} ... found no matches for \"{template}\""
CountFmt == "{path} ... found {errors} errors"
ParseVersionFmt == "could not parse version: {}"
ParseTemplateFmt == "could not parse template: {}"
OkLineFmt == "{path} (line {line_no}) ... ok"
MismatchLineFmt ==
    "{} (line {}) ... found \"{}\", which does not match version \"{}\": {}"

IsErr(r, fmt) == ~r.ok /\ r.err.fmt = fmt

\* The version texts found in the matches: <<i, k>> is the k-th one in the
\* text of the i-th match.
VersionTexts ==
    { ik \in (1..Len(locals.matches)) \X (1..Len(locals.text)) :
        ik[2] <= Len(semvers_in(as_str(locals.text, locals.matches[ik[1]]))) }

VersionTextAt(ik) == semvers_in(as_str(locals.text, locals.matches[ik[1]]))[ik[2]]

Unparsable(str) == ~VersionReq_parse(str).ok

Incompatible(str) ==
    /\ VersionReq_parse(str).ok
    /\ ~version_matches_request(locals.version, VersionReq_parse(str).req).ok

\* C6 as stated: past compilation and reading, the check ends in one of three
\* ways: 'found no matches' with no match, 'found N errors' with a match and
\* N > 0 incompatible versions, Ok with a match and none incompatible.
C6_Original ==
    OnlyReturned =>
        LET n == Cardinality({ ik \in VersionTexts : Incompatible(VersionTextAt(ik)) })
        IN  \/ IsErr(ret, NoMatchFmt) /\ Len(locals.matches) = 0
            \/ IsErr(ret, CountFmt) /\ Len(locals.matches) > 0 /\ n > 0
                                    /\ ret.err.args = <<args.path, n>>
            \/ ret.ok /\ Len(locals.matches) > 0 /\ n = 0

\* C6 amended: past compilation and reading, the check ends in one of four
\* ways.  When a version text in a match cannot be parsed as a requirement it
\* ends with 'could not parse version'; otherwise with 'found no matches' when
\* there is no match, with 'found N errors' when there is a match and N > 0 of
\* the version texts in the matches are incompatible, and with Ok when there
\* is a match and none is.  'found no matches' never comes with a match, and
\* 'found N errors' never with N = 0.
C6_FourOutcomes ==
    OnlyReturned =>
        LET n == Cardinality({ ik \in VersionTexts : Incompatible(VersionTextAt(ik)) })
        IN  /\ IF \E ik \in VersionTexts : Unparsable(VersionTextAt(ik))
               THEN IsErr(ret, ParseVersionFmt)
               ELSE IF Len(locals.matches) = 0
               THEN IsErr(ret, NoMatchFmt) /\ ret.err.args = <<args.path, args.template>>
               ELSE IF n > 0
               THEN IsErr(ret, CountFmt) /\ ret.err.args = <<args.path, n>>
               ELSE ret.ok
            /\ (IsErr(ret, NoMatchFmt) => Len(locals.matches) = 0)
            /\ (IsErr(ret, CountFmt) => ret.err.args[2] > 0)

\* C6 witness: two matches, one of them with an incompatible version, and the
\* check ended with 'found 1 errors'.
C6_Witness ==
    /\ OnlyReturned
    /\ Len(locals.matches) = 2
    /\ IsErr(ret, CountFmt) /\ ret.err.args[2] = 1

\* The text at the {version} placeholder in the i-th match, for a pattern
\* whose other items are single characters: as many characters before it as
\* items before SEMVER_RE, as many after it as items after.
PlaceholderVersion(i) ==
    LET items == ParseItems(locals.pattern, 1, << >>).items
        k == CHOOSE j \in 1..Len(items) : items[j] = SEMVER_RE
        str == as_str(locals.text, locals.matches[i])
    IN  SubSeq(str, k, Len(str) - (Len(items) - k))

\* The status lines on stdout, one for each version evaluated.
StatusLines ==
    { k \in 1..Len(stdout) : stdout[k].fmt \in {OkLineFmt, MismatchLineFmt} }

\* C7 as stated: when the loop has run to its end over a template with a
\* {version} placeholder, each match was evaluated once, and the mismatch
\* count is the number of matches whose version at the placeholder is
\* incompatible, which never exceeds the number of matches.
C7_Original ==
    (/\ OnlyReturned
     /\ locals.next > Len(locals.matches)
     /\ \E j \in 1..Len(locals.pattern) : locals.pattern[j] = SemverText)
    => /\ Cardinality(StatusLines) = Len(locals.matches)
       /\ locals.errors =
            Cardinality({ i \in 1..Len(locals.matches) : Incompatible(PlaceholderVersion(i)) })
       /\ locals.errors <= Len(locals.matches)

\* C8 as stated: the check never returns before every match was examined.
C8_Original ==
    OnlyReturned => locals.next > Len(locals.matches)

\* C8 amended: the check returns before every match was examined only with
\* 'could not parse version', at a match that holds a version text that does
\* not parse; a version that does not match never ends the scan, and the
\* other results are produced after the last match.
C8_ScanRunsToTheEnd ==
    OnlyReturned =>
        \/ locals.next > Len(locals.matches)
        \/ /\ IsErr(ret, ParseVersionFmt)
           /\ \E ik \in VersionTexts : ik[1] = locals.next /\ Unparsable(VersionTextAt(ik))

\* C8 witness: two matches, the version in the first did not match, the second
\* was examined all the same and found ok, and then the check returned.
C8_Witness ==
    /\ OnlyReturned
    /\ Len(locals.matches) = 2 /\ locals.next = 3
    /\ Len(stdout) = 3
    /\ stdout[2].fmt = MismatchLineFmt
    /\ stdout[3].fmt = OkLineFmt
    /\ IsErr(ret, CountFmt)

\* ------------------------------------------------ claims: the pattern checks

\* The line feeds strictly before position `start` of the text.
LineFeedsBefore(text, start) ==
    Cardinality({ i \in 1..(start - 1) : text[i] = "\n" })

\* C9 as stated: the line number reported for a match is the number of line
\* feeds strictly before the start of the match, plus 1, in all three checks.
C9_Original ==
    /\ (/\ pc = "returned"
        /\ args.fn \in {"check_contains_substring", "check_contains_regex"}
        /\ ret.ok)
       => stdout[2].args[2] = LineFeedsBefore(locals.text, locals.start[1]) + 1
    /\ (/\ pc = "only_loop"
        /\ locals.next > 1)
       => locals.line_no
            = LineFeedsBefore(locals.text, locals.matches[locals.next - 1].start) + 1

\* The template is a well-formed pattern once its placeholders stand for
\* plain text.
WellFormed(template) ==
    compile(replace(replace(template, NamePlaceholder, <<"n">>),
                    VersionPlaceholder, <<"v">>)).ok

\* C10 as stated: however often {name} and {version} occur in a template that
\* is otherwise well formed, no check fails to expand or compile it.
C10_Original ==
    (/\ pc = "returned"
     /\ args.fn \in {"check_contains_substring", "check_contains_regex",
                     "check_only_contains_regex"}
     /\ WellFormed(args.template))
    => ~IsErr(ret, ParseTemplateFmt)

\* ------------------------------------------ claims: the first-match checks

\* p occurs in text, character for character.
Occurs(text, p) ==
    \E i \in 1..(Len(text) + 1) :
        /\ i + Len(p) - 1 <= Len(text)
        /\ SubSeq(text, i, i + Len(p) - 1) = p

\* The template with the name and the version put in as they are.
PlainExpansion(template, pkg_name, pkg_version) ==
    replace(replace(template, NamePlaceholder, pkg_name),
            VersionPlaceholder, pkg_version)

\* check_contains_regex has returned, past compilation and reading.
RegexReturned ==
    pc = "returned" /\ args.fn = "check_contains_regex" /\ locals /= NoLocals

\* C11: in check_contains_regex the name and the version are escaped before
\* they are put into the template, so each of their characters matches only
\* itself: for a template made of placeholders and plain characters the check
\* succeeds exactly when the file holds the template with the name and the
\* version put in, character for character.  With "{name}-{version}",
\* "foo*bar" and "1.2.3" it matches "foo*bar-1.2.3" and neither
\* "fooXbar-1.2.3", "fobar-1.2.3" nor "foo*bar-1x2x3".
C11_EscapedNameAndVersion ==
    (RegexReturned /\ args.template \in EscapingTemplates) =>
        (ret.ok <=> Occurs(locals.text,
                           PlainExpansion(args.template, args.pkg_name, args.pkg_version)))

\* C11 witness: "{name}-{version}" with "foo*bar" and "1.2.3" was looked for
\* in the file "fooXbar-1.2.3" / "foo*bar-1.2.3" and found on the second line
\* only.
C11_Witness ==
    /\ RegexReturned
    /\ args.template = NamePlaceholder \o <<"-">> \o VersionPlaceholder
    /\ args.pkg_name = FooStarBar
    /\ args.pkg_version = V123
    /\ locals.text = <<"f", "o", "o", "X", "b", "a", "r", "-">> \o V123 \o <<"\n">>
                        \o FooStarBar \o <<"-">> \o V123
    /\ ret.ok
    /\ locals.start = Some(15)

\* check_contains_substring has returned, past the reading of the file.
SubstringReturned ==
    pc = "returned" /\ args.fn = "check_contains_substring" /\ locals /= NoLocals

\* The template as check_contains_regex expands it.
EscapedExpansion(template, pkg_name, pkg_version) ==
    replace(replace(template, NamePlaceholder, escape(pkg_name)),
            VersionPlaceholder, escape(pkg_version))

\* The regular expression has a match somewhere in the text.
MatchesSomewhere(re, text) ==
    \E pos \in 1..(Len(text) + 1) : Ends(re, text, pos) /= << >>

NotFoundSubstringFmt == "could not find \"{}\" in {}"
NotFoundRegexFmt == "could not find \"{pattern}\" in {path}"

\* C12: once the file is read (and, in check_contains_regex, the pattern
\* compiled), check_contains_substring returns Ok exactly when the expanded
\* pattern occurs in the normalized text of the file and check_contains_regex
\* exactly when the expanded pattern matches somewhere in it; otherwise each
\* returns 'could not find "P" in PATH' with P the pattern after the
\* substitution of the placeholders, not the template.
C12_FoundOrNotFound ==
    /\ SubstringReturned =>
        LET P == PlainExpansion(args.template, args.pkg_name, args.pkg_version)
        IN  /\ locals.text = replace(file.bytes, <<"\r", "\n">>, <<"\n">>)
            /\ ret.ok <=> Occurs(locals.text, P)
            /\ ~ret.ok => /\ ret.err.fmt = NotFoundSubstringFmt
                          /\ ret.err.args = <<P, args.path>>
    /\ RegexReturned =>
        LET P == EscapedExpansion(args.template, args.pkg_name, args.pkg_version)
        IN  /\ locals.text = replace(file.bytes, <<"\r", "\n">>, <<"\n">>)
            /\ ret.ok <=> MatchesSomewhere(compile(P).re, locals.text)
            /\ ~ret.ok => /\ ret.err.fmt = NotFoundRegexFmt
                          /\ ret.err.args = <<P, args.path>>

\* C12 witness: check_contains_substring looked for "{name}/" with the name
\* "foo" in the file "h2/1.0.0/h2" / "x foo/2.0.0/foo", where "foo/" occurs on
\* the second line only, and returned Ok.
C12_Witness ==
    /\ SubstringReturned
    /\ args.template = NamePlaceholder \o <<"/">>
    /\ args.pkg_name = Foo
    /\ locals.text = H2 \o <<"/">> \o V100 \o <<"/">> \o H2 \o <<"\n", "x", " ">>
                        \o Foo \o <<"/">> \o V200 \o <<"/">> \o Foo
    /\ ret.ok
    /\ locals.start = Some(15)

\* One of the first-match checks has returned.
FirstMatchReturned ==
    pc = "returned" /\ args.fn \in {"check_contains_substring", "check_contains_regex"}

\* The check that was called, applied to another file.
SameCheckOn(f) ==
    IF args.fn = "check_contains_substring"
    THEN check_contains_substring(f, args.path, args.template,
                                  args.pkg_name, args.pkg_version)
    ELSE check_contains_regex(f, args.path, args.template,
                              args.pkg_name, args.pkg_version)

\* C13: a check on a file whose lines end in \r\n returns what it returns, and
\* prints what it prints, on the file of the same lines ended by \n; and the
\* pattern ^b$ matches when a line between the first and the last is "b",
\* with either line ending.
C13_LineEndings ==
    FirstMatchReturned =>
        \A ls \in SeqsUpTo(EolLines, MaxEolLines), terminated \in BOOLEAN :
            /\ file.bytes = Render(ls, CrLf, terminated) =>
                LET twin == SameCheckOn([readable |-> TRUE,
                                         bytes |-> Render(ls, Lf, terminated)])
                IN  ret = twin.ret /\ stdout = twin.out
            /\ (/\ file.bytes \in {Render(ls, CrLf, terminated), Render(ls, Lf, terminated)}
                /\ args.fn = "check_contains_regex"
                /\ args.template = <<"^", "b", "$">>
                /\ \E i \in 2..(Len(ls) - 1) : ls[i] = <<"b">>)
               => ret.ok

\* C13 witness: ^b$ was looked for in the file "a\r\nb\r\na\r\n" and found on
\* line 2.
C13_Witness ==
    /\ FirstMatchReturned
    /\ args.fn = "check_contains_regex"
    /\ args.template = <<"^", "b", "$">>
    /\ file.bytes = <<"a", "\r", "\n", "b", "\r", "\n", "a", "\r", "\n">>
    /\ ret.ok
    /\ stdout[2].args = <<Path, 2>>

\* ------------------------------------------------------- claims: url_matches

\* url_matches has returned, on a value that is a URL.
UrlReturned == pc = "returned" /\ args.fn = "url_matches" /\ locals /= NoLocals

Https == <<"h", "t", "t", "p", "s">>

\* The URL is one url_matches checks: its domain is docs.rs, or it has none.
DocsRsOrNoDomain(url) == domain(url) = None \/ domain(url) = Some(DocsRs)

\* The k-th segment of the path of the URL is absent or empty.
NoSegment(url, k) ==
    \/ url.path_segments = None
    \/ Len(url.path_segments[1]) < k
    \/ url.path_segments[1][k] = << >>

ExpectedHttpsFmt == "expected \"https\", found {:?}"
MissingNameFmt == "missing package name"
MissingVersionFmt == "missing version number"
ExpectedPackageFmt == "expected package \"{pkg_name}\", found \"{name}\""

\* C14: url_matches succeeds on every URL that has a domain other than
\* docs.rs, whatever its scheme, its path, the package name and the version.
C14_OtherDomain ==
    (/\ UrlReturned
     /\ domain(locals.url) /= None
     /\ domain(locals.url) /= Some(DocsRs))
    => ret = Ok

\* C14 witness: http://x.io/h2/1.0.0 was accepted for the package foo.
C14_Witness ==
    /\ UrlReturned
    /\ args.value = <<"h", "t", "t", "p", ":", "/", "/", "x", ".", "i", "o", "/",
                      "h", "2", "/", "1", ".", "0", ".", "0">>
    /\ args.pkg_name = Foo
    /\ args.version.major = 0
    /\ ret = Ok

\* C15: on a URL whose domain is docs.rs, or that has no domain, and whose
\* scheme is not https, url_matches fails with 'expected "https", found
\* <scheme>', whatever the path, the package name and the version are.
C15_SchemeFirst ==
    (/\ UrlReturned
     /\ DocsRsOrNoDomain(locals.url)
     /\ locals.url.scheme /= Https)
    => /\ IsErr(ret, ExpectedHttpsFmt)
       /\ ret.err.args = <<locals.url.scheme>>

\* C15 witness: http://docs.rs, which has no package name either, was
\* refused for its scheme.
C15_Witness ==
    /\ UrlReturned
    /\ args.value = <<"h", "t", "t", "p", ":", "/", "/", "d", "o", "c", "s", ".", "r", "s">>
    /\ NoSegment(locals.url, 1)
    /\ IsErr(ret, ExpectedHttpsFmt)
    /\ ret.err.args = << <<"h", "t", "t", "p">> >>

\* C16: on an https docs.rs URL url_matches fails with 'missing package name'
\* when the first segment of the path is absent or empty, and with 'missing
\* version number' when the first is not empty and the second is absent or
\* empty; the same failure is reported for the URL with one more slash at its
\* end.
C16_MissingSegments ==
    (/\ UrlReturned
     /\ domain(locals.url) = Some(DocsRs)
     /\ locals.url.scheme = Https)
    => /\ NoSegment(locals.url, 1) => IsErr(ret, MissingNameFmt)
       /\ (~NoSegment(locals.url, 1) /\ NoSegment(locals.url, 2))
            => IsErr(ret, MissingVersionFmt)
       /\ (IsErr(ret, MissingNameFmt) \/ IsErr(ret, MissingVersionFmt))
            => url_matches(args.value \o <<"/">>, args.pkg_name, args.version) = ret

\* C16 witness: https://docs.rs/foo/ was refused for its missing version.
C16_Witness ==
    /\ UrlReturned
    /\ args.value = <<"h", "t", "t", "p", "s", ":", "/", "/", "d", "o", "c", "s", ".",
                      "r", "s", "/", "f", "o", "o", "/">>
    /\ locals.url.path_segments = Some(<<Foo, << >> >>)
    /\ IsErr(ret, MissingVersionFmt)

\* C17: on an https docs.rs URL whose first two segments are not empty,
\* url_matches fails with 'expected package "E", found "F"', E the package
\* name and F the first segment, whenever the two differ in any character,
\* whatever the second segment is.
C17_WrongPackageName ==
    (/\ UrlReturned
     /\ domain(locals.url) = Some(DocsRs)
     /\ locals.url.scheme = Https
     /\ ~NoSegment(locals.url, 1)
     /\ ~NoSegment(locals.url, 2)
     /\ locals.url.path_segments[1][1] /= args.pkg_name)
    => /\ IsErr(ret, ExpectedPackageFmt)
       /\ ret.err.args = <<args.pkg_name, locals.url.path_segments[1][1]>>

\* C17 witness: https://docs.rs/Foo/<1.0.0, whose second segment is no
\* version requirement, was refused for the package foo because of the name
\* Foo.
C17_Witness ==
    /\ UrlReturned
    /\ domain(locals.url) = Some(DocsRs)
    /\ locals.url.scheme = Https
    /\ locals.url.path_segments = Some(<< <<"F", "o", "o">>,
                                          <<"%", "3", "C", "1", ".", "0", ".", "0">> >>)
    /\ args.pkg_name = Foo
    /\ IsErr(ret, ExpectedPackageFmt)
    /\ ret.err.args = <<Foo, <<"F", "o", "o">> >>

\* C18 as stated: when url_matches succeeds on a docs.rs URL, the first
\* segment of the URL is the package name and the second states a major
\* version, which is the major of the package version, and any minor and
\* patch it states are those of the package version.
C18_Original ==
    (/\ UrlReturned
     /\ domain(locals.url) = Some(DocsRs)
     /\ ret = Ok)
    => /\ ~NoSegment(locals.url, 1)
       /\ ~NoSegment(locals.url, 2)
       /\ locals.url.path_segments[1][1] = args.pkg_name
       /\ LET stated == locals.url.path_segments[1][2]
              major == numeric_identifier(stated, RunEnd(stated, 1, {"=", "~", "^", " "}))
          IN  /\ major.ok
              /\ major.val = args.version.major
              /\ \A c \in { VersionReq_parse(stated).req.comparators[k] :
                              k \in 1..Len(VersionReq_parse(stated).req.comparators) } :
                    /\ c.major = args.version.major
                    /\ c.minor \in {None, Some(args.version.minor)}
                    /\ c.patch \in {None, Some(args.version.patch)}

\* ------------------------------------------- claims: extract_version_request

\* extract_version_request has returned.
ExtractReturned == pc = "returned" /\ args.fn = "extract_version_request"

\* check_markdown_deps has the result of a block.
BlockChecked == pc = "returned" /\ args.fn = "check_markdown_deps"

\* The entries for the package in the TOML document: those of the table
\* `dependencies`, or of `dev-dependencies` when there is no `dependencies`.
DependencyEntries(doc, pkg_name) ==
    LET Tables(name) == { k \in 1..Len(doc.entries) : doc.entries[k].key = name }
        tables == IF Tables(Dependencies) /= {} THEN Tables(Dependencies)
                  ELSE Tables(DevDependencies)
    IN  { doc.entries[t].value.entries[k].value :
            <<t, k>> \in { tk \in tables \X (1..Len(args.block)) :
                             /\ tk[2] <= Len(doc.entries[tk[1]].value.entries)
                             /\ doc.entries[tk[1]].value.entries[tk[2]].key = pkg_name } }

\* The texts of the fields of an entry that have the key and are strings.
StringFields(entry, key) ==
    IF entry.t /= "table" THEN {}
    ELSE { entry.entries[k].value.s :
            k \in { j \in 1..Len(entry.entries) :
                      /\ entry.entries[j].key = key
                      /\ entry.entries[j].value.t = "string" } }

HasField(entry, key) ==
    entry.t = "table" /\ \E k \in 1..Len(entry.entries) : entry.entries[k].key = key

VersionKey == <<"v", "e", "r", "s", "i", "o", "n">>
GitKey == <<"g", "i", "t">>

\* What the claim says an entry resolves to: the texts it may be.
ResolvesTo(entry) ==
    IF StringFields(entry, VersionKey) /= {} THEN StringFields(entry, VersionKey)
    ELSE IF HasField(entry, GitKey) THEN { <<"*">> }
    ELSE IF entry.t = "string" THEN { entry.s }
    ELSE {}

NoDependencyFmt == "no dependency on {}"
BadDependencyFmt == "could not parse dependency: {}"

\* C19: on a block that is TOML, extract_version_request resolves the entry
\* of the package to the string `version` field of a table, else to * when
\* there is a `git` field, else to the string the entry itself is, and
\* returns that text parsed as a requirement; an entry with version = '1.5'
\* and git gives the requirement 1.5; without an entry (or without a text it
\* resolves to) the result is 'no dependency on NAME'.
C19_ResolutionOrder ==
    (ExtractReturned /\ parse_toml(args.block).ok) =>
        LET entries == DependencyEntries(parse_toml(args.block).value, args.pkg_name)
            texts == UNION { ResolvesTo(e) : e \in entries }
        IN  /\ texts = {} => /\ IsErr(ret, NoDependencyFmt)
                             /\ ret.err.args = <<args.pkg_name>>
            /\ \A text \in texts :
                IF VersionReq_parse(text).ok
                THEN ret.ok /\ ret.request = VersionReq_parse(text).req
                ELSE IsErr(ret, BadDependencyFmt)
            /\ (/\ args.block = JoinLines(<<DependenciesHeader, FooVersionGit>>)
                /\ args.pkg_name = Foo)
               => /\ ret.ok
                  /\ ret.request.comparators =
                        <<[op |-> "Caret", major |-> 1, minor |-> Some(5),
                           patch |-> None, pre |-> << >>]>>

\* C19 witness: foo = { version = '1.5', git = 'u' } under [dependencies] was
\* resolved to the requirement 1.5.
C19_Witness ==
    /\ ExtractReturned
    /\ args.block = JoinLines(<<DependenciesHeader, FooVersionGit>>)
    /\ args.pkg_name = Foo
    /\ ret.ok
    /\ ret.request.comparators[1].major = 1
    /\ ret.request.comparators[1].minor = Some(5)

\* C20: a block whose entry for the package is a table with a `git` field
\* and no string `version` field gets the result Ok from the dependency
\* check, for every package version, those with a pre-release included.
C20_GitDependency ==
    (BlockChecked /\ parse_toml(args.block).ok) =>
        \A e \in DependencyEntries(parse_toml(args.block).value, args.pkg_name) :
            (HasField(e, GitKey) /\ StringFields(e, VersionKey) = {}) => ret = Ok

\* C20 witness: foo = { git = 'u' } under [dependencies] was accepted for the
\* package version 1.0.1-a.
C20_Witness ==
    /\ BlockChecked
    /\ args.block = JoinLines(<<DependenciesHeader, FooGit>>)
    /\ args.pkg_name = Foo
    /\ args.version = [major |-> 1, minor |-> 0, patch |-> 1, pre |-> <<"a">>]
    /\ ret = Ok

\* The entries for the package in the table `name` of the TOML document.
EntriesIn(doc, name, pkg_name) ==
    { doc.entries[t].value.entries[k].value :
        <<t, k>> \in { tk \in (1..Len(doc.entries)) \X (1..Len(args.block)) :
                         /\ doc.entries[tk[1]].key = name
                         /\ doc.entries[tk[1]].value.t = "table"
                         /\ tk[2] <= Len(doc.entries[tk[1]].value.entries)
                         /\ doc.entries[tk[1]].value.entries[tk[2]].key = pkg_name } }

\* C21: on a block that is TOML, a dependency on the package that the table
\* `dependencies` or the table `dev-dependencies` lists is found (the result
\* is not 'no dependency on NAME'), also when the other table is present and
\* does not list the package.
C21_Original ==
    (ExtractReturned /\ parse_toml(args.block).ok) =>
        \A name \in {Dependencies, DevDependencies} :
            \A e \in EntriesIn(parse_toml(args.block).value, name, args.pkg_name) :
                ResolvesTo(e) /= {} => ~IsErr(ret, NoDependencyFmt)

\* ------------------------------------------------------ claims: is_toml_block

\* is_toml_block has returned.
LangReturned == pc = "returned" /\ args.fn = "is_toml_block"

\* The text `token` stands in lang between two separators (or the ends).
HasToken(lang, token) ==
    \E i \in 1..Len(lang) :
        /\ i + Len(token) - 1 <= Len(lang)
        /\ SubSeq(lang, i, i + Len(token) - 1) = token
        /\ i = 1 \/ ~is_token_char(lang[i - 1])
        /\ i + Len(token) - 1 = Len(lang) \/ ~is_token_char(lang[i + Len(token)])

\* C22: is_toml_block returns true exactly when the language tag, split on
\* every character that is not alphanumeric, _ or -, has the token toml and
\* does not have the token no_sync, in whatever order the tokens stand.
C22_TomlAndNotNoSync ==
    LangReturned =>
        (ret.value <=> (HasToken(args.lang, Toml) /\ ~HasToken(args.lang, NoSync)))

\* C22 witness: the tag "no_sync,toml", with no_sync before toml, was refused.
C22_Witness ==
    /\ LangReturned
    /\ args.lang = NoSync \o <<",">> \o Toml
    /\ ret.value = FALSE

\* ------------------------------------------------ claims: check_markdown_deps

\* check_markdown_deps has returned after its loop.
DepsReturned ==
    pc = "returned" /\ args.fn = "check_markdown_deps" /\ locals.fn = "check_markdown_deps"

\* The text between the fences of a part of the file.
RECURSIVE ContentOf(_)
ContentOf(ls) == IF ls = << >> THEN << >> ELSE Head(ls) \o <<"\n">> \o ContentOf(Tail(ls))

\* The parts of the file that are relevant TOML blocks, in their order.
RelevantParts ==
    SelectSeq(file.parts,
              LAMBDA part : /\ part.lang /= None
                            /\ HasToken(part.lang[1], Toml)
                            /\ ~HasToken(part.lang[1], NoSync))

\* The result of a relevant part: an error when it cannot be parsed as TOML,
\* has no dependency on the package, or has one that does not match.
PartResult(part) == block_result(args.pkg_name, locals.version, ContentOf(part.lines))

TomlErrorFmt == "TOML parse error: {}"
DependencyErrorsFmt == "dependency errors in {}"
StatusFmts == {"{} (line {}) ... ok", "{} (line {}) ... {} in"}

SixOps == {"Tilde", "Caret", "Exact", "Greater", "GreaterEq", "Wildcard"}

\* C24: with a requirement of one comparator whose operator is tilde, caret,
\* exact, greater, greater-or-equal or wildcard, the call succeeds exactly
\* when the major equals the version's, the minor and the patch equal the
\* version's where given, and the pre-release equals the version's; and the
\* same comparator under any other of the six operators has the same result.
C24_OperatorIrrelevant ==
    (MatchedOne /\ args.request.comparators[1].op \in SixOps) =>
        /\ ret.ok <=> /\ Differing(args.version, args.request.comparators[1]) = {}
                      /\ args.request.comparators[1].pre = args.version.pre
        /\ \A op \in SixOps :
            version_matches_request(args.version,
                [comparators |-> <<[args.request.comparators[1] EXCEPT !.op = op]>>]) = ret

\* C24 witness: the comparator > with the version's own components was
\* accepted, and another > comparator with a different patch was refused.
C24_Witness ==
    /\ MatchedOne
    /\ args.request.comparators[1].op = "Greater"
    /\ args.request.comparators[1].patch /= None
    /\ Differing(args.version, args.request.comparators[1]) = {}
    /\ args.request.comparators[1].pre = args.version.pre
    /\ ret.ok
    /\ ~version_matches_request(args.version,
            [comparators |-> <<[args.request.comparators[1] EXCEPT
                                    !.patch = Some((@[1] + 1) % (MaxNum + 1))]>>]).ok

\* The places in the requirement of comparators with a checked operator that
\* state a component (major, minor, patch or pre-release) other than the
\* version's.
FailingPlaces ==
    { i \in 1..Len(args.request.comparators) :
        /\ args.request.comparators[i].op \in SixOps
        /\ \/ Differing(args.version, args.request.comparators[i]) /= {}
           \/ args.request.comparators[i].pre /= args.version.pre }

\* C25: with a requirement of several comparators the call fails exactly
\* when some comparator with a checked operator states a component that
\* differs from the version's, and the error is that of the first such
\* comparator in the requirement's order; a comparator with another operator
\* never makes the call fail.
C25_FirstFailingComparator ==
    (Matched /\ Len(args.request.comparators) >= 2) =>
        /\ ~ret.ok <=> FailingPlaces /= {}
        /\ \A i \in FailingPlaces :
            (\A j \in FailingPlaces : i <= j) =>
                /\ ret.err.fmt = FirstDifference(args.version,
                                                 args.request.comparators[i]).fmt
                /\ ret.err.args = FirstDifference(args.version,
                                                  args.request.comparators[i]).args

\* C25 witness: two comparators fail with different errors, and the error
\* of the first of the two was returned.
C25_Witness ==
    /\ Matched
    /\ Len(args.request.comparators) = 2
    /\ FailingPlaces = {1, 2}
    /\ FirstDifference(args.version, args.request.comparators[1]).fmt = PreFmt
    /\ FirstDifference(args.version, args.request.comparators[2]).fmt = MajorFmt
    /\ ret.err.fmt = PreFmt

\* ------------------------------------------- claims: checks run concurrently

\* check_only_contains_regex run alone from where s stands, to its result.
RECURSIVE OnlyRun(_, _)
OnlyRun(a, s) ==
    IF s.pc = "returned" THEN s.ret
    ELSE IF s.locals.next <= Len(s.locals.matches)
    THEN OnlyRun(a, only_iterate(a, s.locals, s.out))
    ELSE OnlyRun(a, only_end(a, s.locals, s.out))

\* check_markdown_deps run alone from where s stands, to its result.
RECURSIVE DepsRun(_, _)
DepsRun(a, s) ==
    IF s.pc = "returned" THEN s.ret
    ELSE IF s.locals.next <= Len(s.locals.blocks)
    THEN DepsRun(a, deps_iterate(a, s.locals, s.out))
    ELSE DepsRun(a, deps_end(a, s.locals, s.out))

\* The result of the check of thread t when nothing else runs.
Alone(t) ==
    IF t = "only"
    THEN OnlyRun(args[t], only_begin(file[t], args[t].path, args[t].template,
                                    args[t].pkg_name, args[t].pkg_version))
    ELSE DepsRun(args[t], deps_begin(file[t], args[t].path,
                                    args[t].pkg_name, args[t].pkg_version))

SameResult(r, s) ==
    /\ r.ok = s.ok
    /\ ~r.ok => (r.err.fmt = s.err.fmt /\ r.err.args = s.err.args)

\* C26: when two checks run concurrently on different files, in every
\* interleaving of their steps each check returns the result it returns when
\* run alone on its inputs (file, template, package name, package version),
\* and a step of one check changes nothing of the other.
C26_Independent ==
    /\ [](\A t \in Threads : pc[t] = "returned" => SameResult(ret[t], Alone(t)))
    /\ [][\A t \in Threads :
            (<<pc[t], args[t], locals[t], ret[t], file[t]>>'
                /= <<pc[t], args[t], locals[t], ret[t], file[t]>>)
            => \/ \A u \in Threads \ {t} :
                    <<pc[u], args[u], locals[u], ret[u], file[u]>>'
                        = <<pc[u], args[u], locals[u], ret[u], file[u]>>
               \/ \A u \in Threads : pc'[u] = "idle"]_vars

\* C26 witness: both checks have returned, the lines of the one are on stdout
\* between the lines of the other; check_only_contains_regex has returned an
\* error and check_markdown_deps Ok.
C26_Witness ==
    /\ \A t \in Threads : pc[t] = "returned"
    /\ Len(stdout) = 4
    /\ stdout[1].fmt = "Checking code blocks in {}..."
    /\ stdout[2].fmt = "Searching for \"{template}\" in {path}..."
    /\ stdout[3].fmt = "{} (line {}) ... ok"
    /\ ~ret["only"].ok
    /\ ret["deps"] = Ok

\* ------------------------------------ claims: Ok of check_only_contains_regex

\* C27: if check_only_contains_regex returns Ok, at least one version number
\* of the file was evaluated against the package version (a status line was
\* printed for it), and every one that was evaluated was compatible.
C27_Original ==
    (OnlyReturned /\ ret = Ok) =>
        /\ StatusLines /= {}
        /\ \A k \in StatusLines : stdout[k].fmt = OkLineFmt
        /\ VersionTexts /= {}
        /\ \A ik \in VersionTexts : ~Incompatible(VersionTextAt(ik))

\* ------------------------------------------ claims: the placeholder expansion

\* The template from position i on, with every {name} written in it replaced
\* by the name and every {version} written in it by the version, in one pass
\* from left to right: what has been put in is not looked at again.
RECURSIVE SimultaneousFrom(_, _, _, _)
SimultaneousFrom(template, i, pkg_name, pkg_version) ==
    IF i > Len(template) THEN << >>
    ELSE IF StartsWithAt(template, i, NamePlaceholder)
    THEN pkg_name \o SimultaneousFrom(template, i + Len(NamePlaceholder),
                                      pkg_name, pkg_version)
    ELSE IF StartsWithAt(template, i, VersionPlaceholder)
    THEN pkg_version \o SimultaneousFrom(template, i + Len(VersionPlaceholder),
                                         pkg_name, pkg_version)
    ELSE <<template[i]>> \o SimultaneousFrom(template, i + 1, pkg_name, pkg_version)

\* C28: the pattern check_contains_substring looks for is the template with
\* {name} replaced by pkg_name and {version} by pkg_version simultaneously:
\* text put in for {name} is not rewritten, also when the name holds the
\* text "{version}".
C28_Original ==
    SubstringReturned =>
        locals.pattern = SimultaneousFrom(args.template, 1, args.pkg_name,
                                          args.pkg_version)

\* ------------------------------------------------------- claims: read_file

\* read_file has returned the text of a file.
ReadReturned == pc = "returned" /\ args.fn = "read_file" /\ ret.ok

\* C29: the text read_file returns never holds "\r\n", and normalising it
\* again leaves it unchanged, for every file content, runs such as "\r\r\n"
\* included.
C29_Original ==
    ReadReturned =>
        /\ ~Occurs(ret.text, CrLf)
        /\ replace(ret.text, CrLf, Lf) = ret.text

\* ------------------------------------------- claims: the order of the errors

BadPackageVersionFmt == "bad package version {:?}: {}"
CouldNotReadFmt == "could not read {}: {}"

\* A check of the named function has returned.
CheckReturned(fn) == pc = "returned" /\ args.fn = fn

\* The package version of the call does not parse.
BadPackageVersion == ~Version_parse(args.pkg_version).ok

\* The errors of check_only_contains_regex: the package version first, then
\* the template, then the file.
OnlyErrorOrder ==
    CheckReturned("check_only_contains_regex") =>
        /\ BadPackageVersion => IsErr(ret, BadPackageVersionFmt)
        /\ (~BadPackageVersion /\ ~WellFormed(args.template))
              => IsErr(ret, ParseTemplateFmt)
        /\ (~file.readable /\ ~BadPackageVersion /\ ~IsErr(ret, ParseTemplateFmt))
              => IsErr(ret, CouldNotReadFmt)

\* The errors of check_contains_regex: the template first, then the file.
RegexErrorOrder ==
    CheckReturned("check_contains_regex") =>
        /\ ~WellFormed(args.template) => IsErr(ret, ParseTemplateFmt)
        /\ (~file.readable /\ ~IsErr(ret, ParseTemplateFmt))
              => IsErr(ret, CouldNotReadFmt)

\* The errors of check_markdown_deps and check_html_root_url: the file
\* first, then the package version.
FileErrorFirst ==
    (CheckReturned("check_markdown_deps") \/ CheckReturned("check_html_root_url")) =>
        /\ ~file.readable => IsErr(ret, CouldNotReadFmt)
        /\ (file.readable /\ BadPackageVersion) => IsErr(ret, BadPackageVersionFmt)

\* C30: when several inputs of a check are bad, the error is that of the
\* first step that fails: in check_only_contains_regex the package version,
\* then the template, then the file; in check_contains_regex the template,
\* then the file; in check_markdown_deps and check_html_root_url the file,
\* then the package version.
C30_ErrorOrder == OnlyErrorOrder /\ RegexErrorOrder /\ FileErrorFirst

\* C30 witness: check_html_root_url was called on an unreadable file with a
\* package version that does not parse, and reported the file.
C30_Witness ==
    /\ CheckReturned("check_html_root_url")
    /\ ~file.readable
    /\ BadPackageVersion
    /\ IsErr(ret, CouldNotReadFmt)

====
